---- MODULE Spec2Model ----
(***************************************************************************)
(* Hammer: the range algebra (core/time), the render-plan builders         *)
(* (EditorPage) and the export orchestrator (features/export).             *)
(*                                                                         *)
(* Times are integer milliseconds.  The source guards every entry point    *)
(* with Number.isFinite; the non-finite inputs those guards absorb are     *)
(* outside the integer model.                                              *)
(***************************************************************************)
EXTENDS Integers, Sequences, FiniteSets, TLC

\* Largest millisecond value of a project (source duration, cut bounds).
MaxMs == 3
\* Largest number of cuts a project's EDL holds.
MaxCuts == 2
\* Longest media sample the demuxer hands to the encoder, in milliseconds.
MaxSampleMs == 2
\* Most IndexedDB open requests, and most openDb calls, of one page.
MaxOpens == 3
MaxCalls == 4
\* Most segments of a transcript.
MaxSegs == 3
\* Latest playback position of the capture video, in milliseconds, and most
\* media events and play() settlements one playUntilMs call sees.
MaxPlayMs == 2
MaxEvents == 4
\* LocalStorageProvider: the operations on the stored documents that complete.
MaxUpdates == 2
\* offlineWhisperClient: the transcribe calls made on one client.
MaxRequests == 3

VARIABLES
    durationMs,      \* project.source.durationMs
    edlCuts,         \* project.edl.cuts, as the user left them (raw)
    selectedCut,     \* the cut handed to buildClipPlan (NoCut when none)
    pc,              \* position in the editor pipeline
    plan,            \* the RenderPlan built from the project
    keptRanges,      \* computeKeptRangesForPlan(plan)
    keptDurationMs,  \* computeKeptDurationMs(plan.sourceDurationMs, plan.cuts)
    query,           \* the last mapping call: [fn, arg, res]
    inverse,         \* the opposite mapping applied to query.res
    hasWebCodecs,    \* the host has VideoEncoder and AudioEncoder
    request,         \* the ExportRequest
    xpc,             \* where exportFull stands
    phases,          \* what onPhase was called with, in order
    attempts,        \* the backends encodeWithFallbacks entered, in order
    encoded,         \* what encodeWithFallbacks returned
    result,          \* the ExportResult exportFull resolved with
    storage,         \* the StorageProvider handed to exportFull
    assetStore,      \* the local provider's in-memory Map: asset id -> bytes
    assetRecords,    \* the local provider's IndexedDB store: asset id -> bytes
    storeLog,        \* the getAsset / putAsset calls of the export, settled
    capture,         \* what encodeWithMediaRecorder did to the recorder and video
    resources,       \* what encodeWithMediaRecorder holds: object URL, video, recorder
    sample,          \* the last sample the conversion handed to a process callback
    idbAvailable,    \* typeof indexedDB !== "undefined"
    dbPromise,       \* idb.ts: the cached open promise (0 for null, else its request)
    openRequests,    \* the IDBOpenDBRequests issued, each with its promise
    openCalls,       \* what each openDb call was handed
    transcript,      \* project.transcript.segments
    shortIntent,     \* the intent of the last generation
    shortPreset,     \* the length preset of the last generation
    maxSuggestions,  \* the cap of the last generation
    shortsPc,        \* "ready", or who ran the engine: "handler", "engine"
    shortsStatus,    \* EditorPage: idle, loading, error
    shortsError,     \* EditorPage: the error shown ("none" for null)
    candidates,      \* the candidate windows the engine enumerated
    shortSuggestions, \* the suggestions returned
    player,          \* the capture video: currentTime, paused, muted, ended
    playUntil,       \* one playUntilMs call: its closure, its promise, attemptPlay
    playLog,         \* the media events and play() settlements, in order
    preview,         \* the editor's preview: the video, isPlaying, currentTimeMs
    projectDocs,     \* the stored project documents: project id -> ProjectDoc
    projectIndex,    \* the stored project index: project id -> ProjectListItem
    relink,          \* one relinkSource call: where it stands, what it loaded
    docsOps,         \* the provider operations completed, the clock of updatedAt
    whisper          \* one offline-whisper client, its worker and its promises

vars == <<durationMs, edlCuts, selectedCut, pc, plan, keptRanges,
          keptDurationMs, query, inverse, hasWebCodecs, request, xpc,
          phases, attempts, encoded, result, storage, assetStore,
          assetRecords, storeLog, capture, resources, sample, idbAvailable,
          dbPromise,
          openRequests, openCalls, transcript, shortIntent, shortPreset,
          maxSuggestions, shortsPc, shortsStatus, shortsError, candidates,
          shortSuggestions, player, playUntil, playLog, preview,
          projectDocs, projectIndex, relink, docsOps, whisper>>

----------------------------------------------------------------------------
\* Values

Max(a, b) == IF a >= b THEN a ELSE b
Min(a, b) == IF a <= b THEN a ELSE b

\* number | null
Null == [isNull |-> TRUE, value |-> 0]
Num(n) == [isNull |-> FALSE, value |-> n]

Range(i, o) == [inMs |-> i, outMs |-> o]
NoCut == Range(0, 0)
NoPlan == [sourceDurationMs |-> 0, cuts |-> <<>>, mode |-> "none", clipRangeMs |-> NoCut]
NoQuery == [fn |-> "none", arg |-> Null, res |-> Null]

TimeValues == (0 - 1)..MaxMs
RawCuts == {Range(i, o) : i \in TimeValues, o \in TimeValues}
QueryValues == (0 - 1)..(MaxMs + 1)

RECURSIVE SeqsUpTo(_, _)
SeqsUpTo(S, n) ==
    IF n = 0 THEN {<<>>}
    ELSE LET shorter == SeqsUpTo(S, n - 1)
         IN shorter \cup {Append(s, x) : s \in {t \in shorter : Len(t) = n - 1}, x \in S}

RECURSIVE SumSpans(_)
SumSpans(ranges) ==
    IF ranges = <<>> THEN 0
    ELSE (Head(ranges).outMs - Head(ranges).inMs) + SumSpans(Tail(ranges))

----------------------------------------------------------------------------
\* core/time/ranges.ts

maxDurationOf(d) == IF d > 0 THEN d ELSE 0

clampCut(cut, maxDuration) ==
    Range(Max(0, Min(cut.inMs, maxDuration)), Max(0, Min(cut.outMs, maxDuration)))

RECURSIVE clampAll(_, _)
clampAll(cuts, maxDuration) ==
    IF cuts = <<>> THEN <<>>
    ELSE <<clampCut(Head(cuts), maxDuration)>> \o clampAll(Tail(cuts), maxDuration)

keepCut(cut) == cut.outMs > cut.inMs

\* the comparator of the sort: a sorts at or before b
cutBefore(a, b) == IF a.inMs = b.inMs THEN a.outMs <= b.outMs ELSE a.inMs < b.inMs

RECURSIVE insertCut(_, _)
insertCut(cut, sorted) ==
    IF sorted = <<>> THEN <<cut>>
    ELSE IF cutBefore(cut, Head(sorted)) THEN <<cut>> \o sorted
    ELSE <<Head(sorted)>> \o insertCut(cut, Tail(sorted))

RECURSIVE sortCuts(_)
sortCuts(cuts) ==
    IF cuts = <<>> THEN <<>> ELSE insertCut(Head(cuts), sortCuts(Tail(cuts)))

mergeStepLoose(merged, cut) ==
    IF merged = <<>> THEN <<cut>>
    ELSE LET last == merged[Len(merged)]
         IN IF cut.inMs < last.outMs
            THEN [merged EXCEPT ![Len(merged)].outMs = Max(last.outMs, cut.outMs)]
            ELSE Append(merged, cut)

\* one turn of the merge loop
mergeStep(merged, cut) ==
    IF merged = <<>> THEN <<cut>>
    ELSE LET last == merged[Len(merged)]
         IN IF cut.inMs <= last.outMs
            THEN [merged EXCEPT ![Len(merged)].outMs = Max(last.outMs, cut.outMs)]
            ELSE Append(merged, cut)

RECURSIVE mergeCuts(_, _)
mergeCuts(merged, rest) ==
    IF rest = <<>> THEN merged
    ELSE mergeCuts(mergeStep(merged, Head(rest)), Tail(rest))

normalizeCuts(cuts, d) ==
    LET maxDuration == maxDurationOf(d)
        normalized == sortCuts(SelectSeq(clampAll(cuts, maxDuration), keepCut))
    IN mergeCuts(<<>>, normalized)

computeKeptDurationMsUnguarded(d, normalizedCuts) ==
    d - SumSpans(normalizedCuts)

computeKeptDurationMs(d, normalizedCuts) ==
    LET maxDuration == maxDurationOf(d)
        removed == SumSpans(normalizedCuts)
        kept == maxDuration - removed
    IN IF kept > 0 THEN kept ELSE 0

----------------------------------------------------------------------------
\* core/time/keptRanges.ts

\* the loop of computeKeptRanges: returns [kept, cursor]
RECURSIVE keptWalk(_, _, _)
keptWalk(kept, cursor, cuts) ==
    IF cuts = <<>> THEN [kept |-> kept, cursor |-> cursor]
    ELSE LET cut == Head(cuts)
             kept1 == IF cut.inMs > cursor
                      THEN Append(kept, Range(cursor, cut.inMs)) ELSE kept
         IN keptWalk(kept1, Max(cursor, cut.outMs), Tail(cuts))

computeKeptRangesNoTail(d, normalizedCuts) ==
    LET maxDuration == maxDurationOf(d)
    IN IF maxDuration = 0 THEN <<>>
       ELSE IF Len(normalizedCuts) = 0 THEN <<Range(0, maxDuration)>>
       ELSE keptWalk(<<>>, 0, normalizedCuts).kept

computeKeptRanges(d, normalizedCuts) ==
    LET maxDuration == maxDurationOf(d)
    IN IF maxDuration = 0 THEN <<>>
       ELSE IF Len(normalizedCuts) = 0 THEN <<Range(0, maxDuration)>>
       ELSE LET w == keptWalk(<<>>, 0, normalizedCuts)
            IN IF w.cursor < maxDuration
               THEN Append(w.kept, Range(w.cursor, maxDuration))
               ELSE w.kept

computeKeptRangesForPlanIgnoringMode(p) ==
    computeKeptRanges(p.sourceDurationMs, p.cuts)

computeKeptRangesForPlan(p) ==
    IF p.mode = "clip"
    THEN LET clip == p.clipRangeMs
             maxDuration == maxDurationOf(p.sourceDurationMs)
             inMs == Max(0, Min(clip.inMs, maxDuration))
             outMs == Max(0, Min(clip.outMs, maxDuration))
         IN IF maxDuration = 0 THEN <<>>
            ELSE IF outMs <= inMs THEN <<>>
            ELSE <<Range(inMs, outMs)>>
    ELSE computeKeptRanges(p.sourceDurationMs, p.cuts)

RECURSIVE computeKeptDurationFromRanges(_)
computeKeptDurationFromRanges(ranges) ==
    IF ranges = <<>> THEN 0
    ELSE Max(0, Head(ranges).outMs - Head(ranges).inMs)
         + computeKeptDurationFromRanges(Tail(ranges))

RECURSIVE sourceWalk(_, _, _)
sourceWalk(sourceMs, offset, ranges) ==
    IF ranges = <<>> THEN Null
    ELSE LET range == Head(ranges)
         IN IF sourceMs < range.inMs THEN Null
            ELSE IF sourceMs <= range.outMs THEN Num(offset + (sourceMs - range.inMs))
            ELSE sourceWalk(sourceMs, offset + (range.outMs - range.inMs), Tail(ranges))

\* sourceMs is number | null: a null argument fails the Number.isFinite guard
mapSourceMsToKeptMs(sourceMs, ranges) ==
    IF sourceMs.isNull \/ sourceMs.value < 0 THEN Null
    ELSE sourceWalk(sourceMs.value, 0, ranges)

RECURSIVE keptWalkBackStrict(_, _, _)
keptWalkBackStrict(keptMs, offset, ranges) ==
    IF ranges = <<>> THEN Null
    ELSE LET range == Head(ranges)
             span == range.outMs - range.inMs
         IN IF keptMs < offset + span THEN Num(range.inMs + (keptMs - offset))
            ELSE keptWalkBackStrict(keptMs, offset + span, Tail(ranges))

RECURSIVE keptWalkBack(_, _, _)
keptWalkBack(keptMs, offset, ranges) ==
    IF ranges = <<>> THEN Null
    ELSE LET range == Head(ranges)
             span == range.outMs - range.inMs
         IN IF keptMs <= offset + span THEN Num(range.inMs + (keptMs - offset))
            ELSE keptWalkBack(keptMs, offset + span, Tail(ranges))

mapKeptMsToSourceMsStrict(keptMs, ranges) ==
    IF keptMs.isNull \/ keptMs.value < 0 THEN Null
    ELSE keptWalkBackStrict(keptMs.value, 0, ranges)

mapKeptMsToSourceMs(keptMs, ranges) ==
    IF keptMs.isNull \/ keptMs.value < 0 THEN Null
    ELSE keptWalkBack(keptMs.value, 0, ranges)

----------------------------------------------------------------------------
\* ui/pages/EditorPage.tsx: the plan builders

buildRenderPlan(d, cuts) ==
    [sourceDurationMs |-> d,
     cuts |-> normalizeCuts(cuts, d),
     mode |-> "full",
     clipRangeMs |-> NoCut]

buildClipPlan(d, cut) ==
    [sourceDurationMs |-> d,
     cuts |-> <<>>,
     mode |-> "clip",
     clipRangeMs |-> Range(cut.inMs, cut.outMs)]

----------------------------------------------------------------------------
\* features/export: the orchestrator and what it needs of the backends

Engines == <<"webcodecs", "mediaRecorder", "placeholder">>
Phases == <<"preparing", "encoding", "saving">>
Containers == {"webm", "mp4"}

NoRequest == [container |-> "none"]
NoEncoded == [mime |-> "none", engine |-> "none"]
NoResult ==
    [assetId |-> [providerId |-> "none", rawId |-> "none"], container |-> "none",
     durationMs |-> 0, mime |-> "none", engine |-> "none"]

Attempt(engine, outcome) == [engine |-> engine, outcome |-> outcome]

\* the last attempt of the log settles with the given outcome
settle(log, outcome) == [log EXCEPT ![Len(log)].outcome = outcome]

containerForMime(mime) == IF mime = "video/webm" THEN "webm" ELSE "mp4"

\* pickRecorderMimeType, up to the codec parameters containerForMime drops
recorderMime(container) == IF container = "mp4" THEN "video/mp4" ELSE "video/webm"

createPlaceholderExport(container) ==
    [mime |-> IF container = "webm" THEN "video/webm" ELSE "video/mp4",
     engine |-> "placeholder"]

useWebCodecsOnAnyContainer(req, host) == host

\* the guard of the sample-level attempt in encodeWithFallbacks
useWebCodecs(req, host) == req.container = "webm" /\ host

\* onPhase?.(phase)
onPhase(log, phase) == Append(log, phase)

----------------------------------------------------------------------------
\* providers/storage: asset ids and the asset stores

Providers == {"local", "tongs"}

\* an asset id "provider:raw"; a raw id carries no provider
AssetId(providerId, rawId) == [providerId |-> providerId, rawId |-> rawId]
RawId(rawId) == AssetId("none", rawId)

namespaceAssetId(providerId, rawId) == AssetId(providerId, rawId.rawId)

splitAssetId(assetId) ==
    [providerId |-> assetId.providerId, rawId |-> RawId(assetId.rawId)]

\* the ids getAsset tries, in order; <<>> stands for the provider-mismatch throw
buildAssetLookupIds(assetId, providerId) ==
    LET parsed == splitAssetId(assetId)
    IN IF parsed.providerId # "none"
       THEN IF parsed.providerId # providerId
            THEN <<>>
            ELSE <<assetId, parsed.rawId>>
       ELSE <<assetId, namespaceAssetId(providerId, assetId)>>

\* plan.sourceAssetId, and the asset of an earlier export of this session
SourceAssetId == AssetId("local", "source")
EarlierAssetId == AssetId("local", "id_1")

\* the raw ids crypto.randomUUID can return
RawIds == {RawId("id_1"), RawId("id_2")}

EmptyStore == [id \in {} |-> "none"]

\* Map.set / IDBObjectStore.put
setAsset(store, id, blob) ==
    [x \in DOMAIN store \cup {id} |-> IF x = id THEN blob ELSE store[x]]

createIdReused(held) == RawId(SourceAssetId.rawId)

\* createId: a UUID (or time-and-random id) no stored asset carries
createId(held) ==
    CHOOSE raw \in RawIds : namespaceAssetId("local", raw) \notin held

\* the first of the ids the store holds, 0 when it holds none
firstHeld(ids, store) ==
    IF \E i \in DOMAIN ids : ids[i] \in DOMAIN store
    THEN CHOOSE i \in DOMAIN ids :
            /\ ids[i] \in DOMAIN store
            /\ \A j \in DOMAIN ids : ids[j] \in DOMAIN store => i <= j
    ELSE 0

AssetRejected(store) == [resolved |-> FALSE, blob |-> "none", store |-> store]

\* LocalStorageProvider.getAsset: the memory map first, then IndexedDB (which
\* opens or fails), caching what IndexedDB returned; the map after the call
\* is part of the outcome
localGetAsset(assetId, store, records, idbOpens) ==
    LET lookupIds == buildAssetLookupIds(assetId, "local")
        m == firstHeld(lookupIds, store)
        r == firstHeld(lookupIds, records)
    IN IF lookupIds = <<>> THEN AssetRejected(store)
       ELSE IF m > 0
       THEN [resolved |-> TRUE, blob |-> store[lookupIds[m]],
             store |-> IF lookupIds[m] # assetId
                       THEN setAsset(store, assetId, store[lookupIds[m]])
                       ELSE store]
       ELSE IF ~idbOpens THEN AssetRejected(store)
       ELSE IF r > 0
       THEN [resolved |-> TRUE, blob |-> records[lookupIds[r]],
             store |-> setAsset(setAsset(store, lookupIds[r], records[lookupIds[r]]),
                                assetId, records[lookupIds[r]])]
       ELSE AssetRejected(store)

\* storage.getAsset: TongsProvider always throws
getAsset(provider, assetId, store, records, idbOpens) ==
    IF provider = "tongs" THEN AssetRejected(store)
    ELSE localGetAsset(assetId, store, records, idbOpens)

\* the stores when the editor opens a project imported earlier: the source
\* is in IndexedDB, an export of this session is in both stores
InitialStore == setAsset(EmptyStore, EarlierAssetId, "earlier")
InitialRecords == setAsset(setAsset(EmptyStore, SourceAssetId, "source"),
                           EarlierAssetId, "earlier")

StoreCall(op, by, outcome) == [op |-> op, by |-> by, outcome |-> outcome]

----------------------------------------------------------------------------
\* features/export/engines: the capture-and-record backend's loop and the
\* sample-level backend's process callbacks

RecorderOp(op, ms) == [op |-> op, ms |-> ms]

\* the object URL of the source blob, the video element and the MediaRecorder,
\* and what encodeWithMediaRecorder threw for
NoResources ==
    [objectUrl |-> "none", video |-> "none", recorder |-> "none", failure |-> "none"]

\* URL.createObjectURL(sourceBlob) and video.src = sourceUrl
acquireSource(held) == [held EXCEPT !.objectUrl = "live", !.video = "loaded"]

\* the finally block: video.pause(), removeAttribute("src"), load(),
\* URL.revokeObjectURL(sourceUrl)
releaseSource(held) == [held EXCEPT !.video = "released", !.objectUrl = "revoked"]

\* the throw for a missing captureStream revokes the URL and leaves the video
revokeOnly(held) == [held EXCEPT !.objectUrl = "revoked"]

keptRangeAtReversed(ranges, turn) == ranges[Len(ranges) + 1 - turn]

\* for (const range of keptRanges): the range of the turn-th iteration
keptRangeAt(ranges, turn) == ranges[turn]

\* how many ranges the loop has played to their end, and whether the seek of
\* the next one is done
rangesPlayed(log) == (Len(log) - 1) \div 2
seekDone(log) == (Len(log) - 1) % 2 = 1

RECURSIVE offsetsFrom(_, _)
offsetsFrom(ranges, offset) ==
    IF ranges = <<>> THEN <<>>
    ELSE LET range == Head(ranges)
             span == Max(0, range.outMs - range.inMs)
         IN <<[inMs |-> range.inMs, outMs |-> range.outMs, offsetMs |-> offset]>>
            \o offsetsFrom(Tail(ranges), offset + span)

buildRangeOffsetsFlat(ranges) ==
    [i \in DOMAIN ranges |->
        [inMs |-> ranges[i].inMs, outMs |-> ranges[i].outMs, offsetMs |-> 0]]

buildRangeOffsets(ranges) == offsetsFrom(ranges, 0)

NotMapped == [isNull |-> TRUE, keptMs |-> 0, rangeOutMs |-> 0]

\* the encoder's own source-to-kept mapping; sourceMs is a finite number
RECURSIVE mapSourceMsToKept(_, _)
mapSourceMsToKept(sourceMs, ranges) ==
    IF sourceMs < 0 \/ ranges = <<>> THEN NotMapped
    ELSE LET range == Head(ranges)
         IN IF sourceMs < range.inMs THEN NotMapped
            ELSE IF sourceMs <= range.outMs
            THEN [isNull |-> FALSE,
                  keptMs |-> range.offsetMs + (sourceMs - range.inMs),
                  rangeOutMs |-> range.outMs]
            ELSE mapSourceMsToKept(sourceMs, Tail(ranges))

needsRetiming(p) == p.mode = "clip" \/ Len(p.cuts) > 0

Sample(timestamp, duration) == [timestamp |-> timestamp, duration |-> duration]
Dropped == [dropped |-> TRUE, timestamp |-> 0, duration |-> 0]
Emitted(timestamp, duration) ==
    [dropped |-> FALSE, timestamp |-> timestamp, duration |-> duration]
NoSample == [kind |-> "none", source |-> Sample(0, 0), out |-> Dropped]

\* videoOptions.process, in milliseconds
processVideo(s, ranges) ==
    LET sourceMs == s.timestamp
        mapped == mapSourceMsToKept(sourceMs, ranges)
        maxDurationMs == Max(0, mapped.rangeOutMs - sourceMs)
    IN IF mapped.isNull THEN Dropped
       ELSE IF maxDurationMs <= 0 THEN Dropped
       ELSE Emitted(mapped.keptMs, Min(s.duration, maxDurationMs))

\* audioOptions.process, in milliseconds: the clone keeps the sample's duration
processAudio(s, ranges) ==
    LET sourceMs == s.timestamp
        mapped == mapSourceMsToKept(sourceMs, ranges)
    IN IF mapped.isNull THEN Dropped
       ELSE Emitted(mapped.keptMs, s.duration)

\* a track without a process callback is transcoded sample for sample
passThrough(s) == Emitted(s.timestamp, s.duration)

SampleTimes == 0..MaxMs
SampleDurations == 1..MaxSampleMs

----------------------------------------------------------------------------
\* The pipeline

projectVars == <<durationMs, edlCuts, selectedCut>>
rangeVars == <<keptRanges, query, inverse>>
hostVars == <<hasWebCodecs, request, storage>>
storeVars == <<assetStore, assetRecords>>
idbVars == <<idbAvailable, dbPromise, openRequests, openCalls>>
shortsVars == <<transcript, shortIntent, shortPreset, maxSuggestions, shortsPc,
                shortsStatus, shortsError, candidates, shortSuggestions>>
playVars == <<player, playUntil, playLog>>
previewVars == <<preview>>
docsVars == <<projectDocs, projectIndex, relink, docsOps>>
whisperVars == <<whisper>>
laterVars == <<playVars, previewVars, docsVars, whisperVars>>
sideVars == <<idbVars, shortsVars, laterVars>>
exportVars == <<hostVars, xpc, phases, attempts, encoded, result, storeVars,
                storeLog, capture, resources, sample, sideVars>>

\* the editor before any plan is built
EditorIdle ==
    /\ selectedCut = NoCut
    /\ pc = "project"
    /\ plan = NoPlan
    /\ keptRanges = <<>>
    /\ keptDurationMs = 0
    /\ query = NoQuery
    /\ inverse = Null

\* no export under way; the stores as the editor finds them
ExportIdle ==
    /\ hasWebCodecs = FALSE
    /\ request = NoRequest
    /\ xpc = "idle"
    /\ phases = <<>>
    /\ attempts = <<>>
    /\ encoded = NoEncoded
    /\ result = NoResult
    /\ storage = "local"
    /\ assetStore = InitialStore
    /\ assetRecords = InitialRecords
    /\ storeLog = <<>>
    /\ capture = <<>>
    /\ resources = NoResources
    /\ sample = NoSample

\* the IndexedDB module as loaded: nothing cached, nothing requested
IdbIdle ==
    /\ dbPromise = 0
    /\ openRequests = <<>>
    /\ openCalls = <<>>

\* the shorts panel as the editor opens it
\* no playUntilMs call has been made: the video is paused at the start
NoPlayUntil ==
    [endMs |-> 0, settled |-> FALSE, listeners |-> {}, promise |-> "none",
     calls |-> 0, play |-> "none", attempts |-> 0]

PlayIdle ==
    /\ player = [currentTime |-> 0, paused |-> TRUE, muted |-> FALSE, ended |-> FALSE]
    /\ playUntil = NoPlayUntil
    /\ playLog = <<>>

\* no relinkSource call has been made
NoDocs == [id \in {} |-> "none"]
NoFile == [name |-> "none", durationMs |-> 0, fps |-> FALSE]
NoRelink == [pc |-> "idle", projectId |-> "none", file |-> NoFile,
             docs |-> NoDocs, index |-> NoDocs, assetId |-> AssetId("none", "none")]

\* the provider with no project stored
DocsIdle ==
    /\ projectDocs = NoDocs
    /\ projectIndex = NoDocs
    /\ relink = NoRelink
    /\ docsOps = 0

\* createOfflineWhisperClient: a worker is created, no request is active
NewClient == [worker |-> 1, created |-> 1, activeRequest |-> 0, promises |-> <<>>,
              listeners |-> {}, posted |-> <<>>, status |-> "none"]

WhisperIdle == whisper = NewClient

\* the editor with the source loaded and nothing played yet
PreviewIdle ==
    preview = [currentTime |-> 0, paused |-> TRUE, isPlaying |-> FALSE,
               currentTimeMs |-> 0, last |-> "none"]

LaterIdle ==
    /\ PlayIdle
    /\ PreviewIdle
    /\ DocsIdle
    /\ WhisperIdle

ShortsIdle ==
    /\ shortIntent = "teaser_funnel"
    /\ shortPreset = "default"
    /\ maxSuggestions = 20
    /\ shortsPc = "ready"
    /\ shortsStatus = "idle"
    /\ shortsError = "none"
    /\ candidates = <<>>
    /\ shortSuggestions = <<>>

Init ==
    /\ durationMs \in TimeValues
    /\ edlCuts \in SeqsUpTo(RawCuts, MaxCuts)
    /\ EditorIdle
    /\ ExportIdle
    /\ idbAvailable = TRUE
    /\ IdbIdle
    /\ transcript = <<>>
    /\ ShortsIdle
    /\ LaterIdle

\* handleExportFull / logCutPlan: the plan of the whole project
BuildRenderPlan ==
    /\ pc = "project"
    /\ plan' = buildRenderPlan(durationMs, edlCuts)
    /\ pc' = "plan"
    /\ UNCHANGED <<projectVars, rangeVars, keptDurationMs, exportVars>>

\* handleExportCut: the plan of the selected cut alone
BuildClipPlan ==
    /\ pc = "project"
    /\ \E i \in DOMAIN edlCuts :
        /\ selectedCut' = edlCuts[i]
        /\ plan' = buildClipPlan(durationMs, edlCuts[i])
    /\ pc' = "plan"
    /\ UNCHANGED <<durationMs, edlCuts, rangeVars, keptDurationMs, exportVars>>

\* What the plan keeps: the kept duration (exportFull, logCutPlan) and the
\* kept ranges (the encoders, the preview).  Both read the plan alone; the
\* model lets go of the project's EDL here.
ComputeKept ==
    /\ pc = "plan"
    /\ edlCuts' = <<>>
    /\ keptDurationMs' = computeKeptDurationMs(plan.sourceDurationMs, plan.cuts)
    /\ keptRanges' = computeKeptRangesForPlan(plan)
    /\ pc' = "kept"
    /\ UNCHANGED <<durationMs, selectedCut, plan, query, inverse, exportVars>>

MapSource ==
    /\ pc = "kept"
    /\ \E s \in QueryValues :
        query' = [fn |-> "mapSourceMsToKeptMs", arg |-> Num(s),
                  res |-> mapSourceMsToKeptMs(Num(s), keptRanges)]
    /\ pc' = "mapped"
    /\ UNCHANGED <<projectVars, plan, keptRanges, keptDurationMs, inverse, exportVars>>

MapKept ==
    /\ pc = "kept"
    /\ \E k \in QueryValues :
        query' = [fn |-> "mapKeptMsToSourceMs", arg |-> Num(k),
                  res |-> mapKeptMsToSourceMs(Num(k), keptRanges)]
    /\ pc' = "mapped"
    /\ UNCHANGED <<projectVars, plan, keptRanges, keptDurationMs, inverse, exportVars>>

\* the round trip: the opposite mapping applied to the result of the last call
MapBack ==
    /\ pc = "mapped"
    /\ inverse' = IF query.fn = "mapSourceMsToKeptMs"
                  THEN mapKeptMsToSourceMs(query.res, keptRanges)
                  ELSE mapSourceMsToKeptMs(query.res, keptRanges)
    /\ pc' = "roundtrip"
    /\ UNCHANGED <<projectVars, plan, keptRanges, keptDurationMs, query, exportVars>>

\* handleExport calls exportFull(plan, storage, request, onPhase): the
\* preparing phase, which reads the plan alone.  The model lets go of the
\* project's EDL here.
ExportFullPreparing ==
    /\ pc = "plan"
    /\ pc' = "export"
    /\ edlCuts' = <<>>
    /\ phases' = onPhase(phases, "preparing")
    /\ keptDurationMs' = computeKeptDurationMs(plan.sourceDurationMs, plan.cuts)
    /\ xpc' = "preparing"
    /\ UNCHANGED <<durationMs, selectedCut, plan, rangeVars, hostVars, attempts,
                   encoded, result, storeVars, storeLog, capture, resources, sample, sideVars>>

\* the encoding phase opens and encodeWithFallbacks starts its first backend.
\* This is where the call's request, the host's WebCodecs probe and the
\* storage provider are first read, so this is where the model draws them.
ExportFullEncoding ==
    /\ xpc = "preparing"
    /\ phases' = onPhase(phases, "encoding")
    /\ \E c \in Containers : \E h \in BOOLEAN : \E p \in Providers :
        /\ request' = [container |-> c]
        /\ hasWebCodecs' = h
        /\ storage' = p
        /\ IF useWebCodecs([container |-> c], h)
           THEN /\ attempts' = Append(attempts, Attempt("webcodecs", "pending"))
                /\ xpc' = "webcodecs"
           ELSE /\ attempts' = Append(attempts, Attempt("mediaRecorder", "pending"))
                /\ xpc' = "mediaRecorder"
    /\ UNCHANGED <<projectVars, pc, plan, keptDurationMs, rangeVars,
                   encoded, result, storeVars, storeLog, capture, resources, sample, sideVars>>

\* encodeWithWebCodecsWebm, on a host with the encoders and for a plan that
\* keeps something, awaits storage.getAsset(plan.sourceAssetId): resolved, the
\* conversion is set up; rejected, the catch of encodeWithFallbacks falls
\* through to encodeWithMediaRecorder
WebCodecsGetAsset ==
    /\ xpc = "webcodecs"
    /\ hasWebCodecs
    /\ computeKeptRangesForPlan(plan) # <<>>
    /\ \E idbOpens \in BOOLEAN :
        LET got == getAsset(storage, SourceAssetId, assetStore, assetRecords, idbOpens)
        IN /\ assetStore' = got.store
           /\ IF got.resolved
              THEN /\ storeLog' = Append(storeLog, StoreCall("getAsset", "webcodecs", "resolved"))
                   /\ keptRanges' = computeKeptRangesForPlan(plan)
                   /\ attempts' = attempts
                   /\ xpc' = "conversion"
              ELSE /\ storeLog' = Append(storeLog, StoreCall("getAsset", "webcodecs", "rejected"))
                   /\ keptRanges' = keptRanges
                   /\ attempts' = Append(settle(attempts, "failed"),
                                         Attempt("mediaRecorder", "pending"))
                   /\ xpc' = "mediaRecorder"
    /\ UNCHANGED <<projectVars, pc, plan, keptDurationMs, query, inverse, hostVars,
                   phases, encoded, result, assetRecords, capture, resources, sample, sideVars>>

\* conversion.execute() hands a video sample to videoOptions.process when the
\* plan needs retiming, and transcodes it as it is otherwise
ProcessVideoSample ==
    /\ xpc = "conversion"
    /\ \E t \in SampleTimes : \E d \in SampleDurations :
        sample' = [kind |-> "video", source |-> Sample(t, d),
                   out |-> IF needsRetiming(plan)
                           THEN processVideo(Sample(t, d), buildRangeOffsets(keptRanges))
                           ELSE passThrough(Sample(t, d))]
    /\ UNCHANGED <<projectVars, pc, plan, keptDurationMs, rangeVars, hostVars, xpc,
                   phases, attempts, encoded, result, storeVars, storeLog, capture, resources,
                   sideVars>>

\* conversion.execute() hands an audio sample to audioOptions.process likewise
ProcessAudioSample ==
    /\ xpc = "conversion"
    /\ \E t \in SampleTimes : \E d \in SampleDurations :
        sample' = [kind |-> "audio", source |-> Sample(t, d),
                   out |-> IF needsRetiming(plan)
                           THEN processAudio(Sample(t, d), buildRangeOffsets(keptRanges))
                           ELSE passThrough(Sample(t, d))]
    /\ UNCHANGED <<projectVars, pc, plan, keptDurationMs, rangeVars, hostVars, xpc,
                   phases, attempts, encoded, result, storeVars, storeLog, capture, resources,
                   sideVars>>

\* encodeWithWebCodecsWebm resolves once the conversion has run
WebCodecsResolves ==
    /\ xpc = "conversion"
    /\ attempts' = settle(attempts, "ok")
    /\ encoded' = [mime |-> "video/webm", engine |-> "webcodecs"]
    /\ xpc' = "encoded"
    /\ UNCHANGED <<projectVars, pc, plan, keptDurationMs, rangeVars, hostVars,
                   phases, result, storeVars, storeLog, capture, resources, sample, sideVars>>

\* encodeWithWebCodecsWebm throws for a reason of its own (no kept ranges, no
\* codec, demux, encode, no output); the catch falls through to
\* encodeWithMediaRecorder
WebCodecsRejects ==
    /\ xpc \in {"webcodecs", "conversion"}
    /\ attempts' = Append(settle(attempts, "failed"), Attempt("mediaRecorder", "pending"))
    /\ xpc' = "mediaRecorder"
    /\ UNCHANGED <<projectVars, pc, plan, keptDurationMs, rangeVars, hostVars,
                   phases, encoded, result, storeVars, storeLog, capture, resources, sample,
                   sideVars>>

\* encodeWithMediaRecorder, for a plan that keeps something, awaits
\* storage.getAsset(plan.sourceAssetId): resolved, the video element is set
\* up; rejected, the catch returns createPlaceholderExport
MediaRecorderGetAsset ==
    /\ xpc = "mediaRecorder"
    /\ computeKeptRangesForPlan(plan) # <<>>
    /\ \E idbOpens \in BOOLEAN :
        LET got == getAsset(storage, SourceAssetId, assetStore, assetRecords, idbOpens)
        IN /\ assetStore' = got.store
           /\ IF got.resolved
              THEN /\ storeLog' = Append(storeLog, StoreCall("getAsset", "mediaRecorder", "resolved"))
                   /\ keptRanges' = computeKeptRangesForPlan(plan)
                   /\ attempts' = attempts
                   /\ encoded' = encoded
                   /\ resources' = acquireSource(NoResources)
                   /\ xpc' = "metadata"
              ELSE /\ storeLog' = Append(storeLog, StoreCall("getAsset", "mediaRecorder", "rejected"))
                   /\ keptRanges' = keptRanges
                   /\ attempts' = Append(settle(attempts, "failed"),
                                         Attempt("placeholder", "ok"))
                   /\ encoded' = createPlaceholderExport(request.container)
                   /\ resources' = NoResources
                   /\ xpc' = "encoded"
    /\ UNCHANGED <<projectVars, pc, plan, keptDurationMs, query, inverse, hostVars,
                   phases, result, assetRecords, capture, sample, sideVars>>

\* the metadata has loaded, the stream is captured and recorder.start() is called
RecorderStart ==
    /\ xpc = "metadata"
    /\ capture' = <<RecorderOp("start", 0)>>
    /\ resources' = [resources EXCEPT !.recorder = "recording"]
    /\ xpc' = "recording"
    /\ UNCHANGED <<projectVars, pc, plan, keptDurationMs, rangeVars, hostVars,
                   phases, attempts, encoded, result, storeVars, storeLog, sample,
                   sideVars>>

\* await seekToMs(video, range.inMs) of the next range resolves
SeekToMs ==
    /\ xpc = "recording"
    /\ ~seekDone(capture)
    /\ rangesPlayed(capture) < Len(keptRanges)
    /\ capture' = Append(capture,
            RecorderOp("seek", keptRangeAt(keptRanges, rangesPlayed(capture) + 1).inMs))
    /\ UNCHANGED <<projectVars, pc, plan, keptDurationMs, rangeVars, hostVars, xpc,
                   phases, attempts, encoded, result, storeVars, storeLog, sample,
                   resources, sideVars>>

\* await playUntilMs(video, range.outMs) of the same range resolves
PlayUntilMs ==
    /\ xpc = "recording"
    /\ seekDone(capture)
    /\ capture' = Append(capture,
            RecorderOp("play", keptRangeAt(keptRanges, rangesPlayed(capture) + 1).outMs))
    /\ UNCHANGED <<projectVars, pc, plan, keptDurationMs, rangeVars, hostVars, xpc,
                   phases, attempts, encoded, result, storeVars, storeLog, sample,
                   resources, sideVars>>

\* the loop is over: recorder.stop() is called and recorderStopped awaited
RecorderStop ==
    /\ xpc = "recording"
    /\ ~seekDone(capture)
    /\ rangesPlayed(capture) = Len(keptRanges)
    /\ capture' = Append(capture, RecorderOp("stop", 0))
    /\ resources' = [resources EXCEPT !.recorder = "inactive"]
    /\ xpc' = "stopping"
    /\ UNCHANGED <<projectVars, pc, plan, keptDurationMs, rangeVars, hostVars,
                   phases, attempts, encoded, result, storeVars, storeLog, sample,
                   sideVars>>

\* the recorder has stopped and encodeWithMediaRecorder resolves, through
\* its finally block
MediaRecorderResolves ==
    /\ xpc = "stopping"
    /\ attempts' = settle(attempts, "ok")
    /\ encoded' = [mime |-> recorderMime(request.container), engine |-> "mediaRecorder"]
    /\ resources' = releaseSource(resources)
    /\ xpc' = "encoded"
    /\ UNCHANGED <<projectVars, pc, plan, keptDurationMs, rangeVars, hostVars,
                   phases, result, storeVars, storeLog, capture, sample, sideVars>>

\* where encodeWithMediaRecorder can throw for a reason of its own, by the
\* point it has reached
RecorderFailures(at) ==
    IF at = "mediaRecorder" THEN {"no document", "no kept ranges"}
    ELSE IF at = "metadata" THEN {"captureStream", "loadedmetadata", "mime"}
    ELSE IF at = "recording" THEN {"seek", "playback"}
    ELSE {"recorder error"}

\* what it holds once it has thrown: nothing was acquired before getAsset; a
\* missing captureStream revokes the URL and throws outside the try; every
\* later throw runs the finally block, which does not touch the recorder
heldAfterFailure(held, failure) ==
    LET failed == [held EXCEPT !.failure = failure]
    IN IF failure \in {"no document", "no kept ranges"} THEN failed
       ELSE IF failure = "captureStream" THEN revokeOnly(failed)
       ELSE releaseSource(failed)

\* encodeWithMediaRecorder throws; the catch of encodeWithFallbacks returns
\* createPlaceholderExport
MediaRecorderRejects ==
    /\ xpc \in {"mediaRecorder", "metadata", "recording", "stopping"}
    /\ attempts' = Append(settle(attempts, "failed"), Attempt("placeholder", "ok"))
    /\ encoded' = createPlaceholderExport(request.container)
    /\ \E failure \in RecorderFailures(xpc) :
        resources' = heldAfterFailure(resources, failure)
    /\ xpc' = "encoded"
    /\ UNCHANGED <<projectVars, pc, plan, keptDurationMs, rangeVars, hostVars,
                   phases, result, storeVars, storeLog, capture, sample, sideVars>>

ExportFullSavingSilent ==
    /\ xpc = "encoded"
    /\ phases' = phases
    /\ xpc' = "putAsset"
    /\ UNCHANGED <<projectVars, pc, plan, keptDurationMs, rangeVars, hostVars,
                   attempts, encoded, result, storeVars, storeLog, capture, resources, sample,
                   sideVars>>

\* the saving phase opens and storage.putAsset(file) is awaited
ExportFullSaving ==
    /\ xpc = "encoded"
    /\ phases' = onPhase(phases, "saving")
    /\ xpc' = "putAsset"
    /\ UNCHANGED <<projectVars, pc, plan, keptDurationMs, rangeVars, hostVars,
                   attempts, encoded, result, storeVars, storeLog, capture, resources, sample,
                   sideVars>>

\* LocalStorageProvider.putAsset stores the file under a new id, in the memory
\* map and (when IndexedDB opens) in IndexedDB, and resolves; exportFull
\* resolves with the ExportResult.  The bytes of the file are named after the
\* engine that made them.
PutAssetResolves ==
    /\ xpc = "putAsset"
    /\ storage = "local"
    /\ LET held == DOMAIN assetStore \cup DOMAIN assetRecords
           assetId == namespaceAssetId("local", createId(held))
       IN /\ assetStore' = setAsset(assetStore, assetId, encoded.engine)
          /\ \E idbOpens \in BOOLEAN :
                assetRecords' = IF idbOpens
                                THEN setAsset(assetRecords, assetId, encoded.engine)
                                ELSE assetRecords
          /\ result' = [assetId |-> assetId,
                        container |-> containerForMime(encoded.mime),
                        durationMs |-> keptDurationMs,
                        mime |-> encoded.mime,
                        engine |-> encoded.engine]
    /\ storeLog' = Append(storeLog, StoreCall("putAsset", "exportFull", "resolved"))
    /\ xpc' = "resolved"
    /\ UNCHANGED <<projectVars, pc, plan, keptDurationMs, rangeVars, hostVars,
                   phases, attempts, encoded, capture, resources, sample, sideVars>>

\* TongsProvider.putAsset throws; nothing in exportFull catches it, so
\* exportFull rejects
PutAssetRejects ==
    /\ xpc = "putAsset"
    /\ storage = "tongs"
    /\ storeLog' = Append(storeLog, StoreCall("putAsset", "exportFull", "rejected"))
    /\ xpc' = "rejected"
    /\ UNCHANGED <<projectVars, pc, plan, keptDurationMs, rangeVars, hostVars,
                   phases, attempts, encoded, result, storeVars, capture, resources, sample,
                   sideVars>>

Next ==
    \/ BuildRenderPlan
    \/ BuildClipPlan
    \/ ComputeKept
    \/ MapSource
    \/ MapKept
    \/ MapBack
    \/ ExportFullPreparing
    \/ ExportFullEncoding
    \/ WebCodecsGetAsset
    \/ ProcessVideoSample
    \/ ProcessAudioSample
    \/ WebCodecsResolves
    \/ WebCodecsRejects
    \/ MediaRecorderGetAsset
    \/ RecorderStart
    \/ SeekToMs
    \/ PlayUntilMs
    \/ RecorderStop
    \/ MediaRecorderResolves
    \/ MediaRecorderRejects
    \/ ExportFullSaving
    \/ PutAssetResolves
    \/ PutAssetRejects

Spec == Init /\ [][Next]_vars

----------------------------------------------------------------------------
\* providers/storage/idb.ts: openDb and the events of its open requests

NewRequest == [promise |-> "pending", upgraded |-> FALSE, blocked |-> FALSE, done |-> FALSE]

OpenCall(by, cacheBefore, promise, state) ==
    [by |-> by, cacheBefore |-> cacheBefore, promise |-> promise, state |-> state]

\* Promise resolve / reject: a settled promise stays as it is
settlePromise(state, outcome) == IF state = "pending" THEN outcome ELSE state

\* openDb(): the cached promise when there is one; a rejected promise that is
\* not cached when the host has no indexedDB; else a new open request whose
\* promise is cached.  handed is the request whose promise is returned (0 for
\* the uncached rejection).
openDb(cache, requests, available) ==
    IF cache # 0
    THEN [dbPromise |-> cache, requests |-> requests, handed |-> cache,
          state |-> requests[cache].promise]
    ELSE IF ~available
    THEN [dbPromise |-> 0, requests |-> requests, handed |-> 0, state |-> "rejected"]
    ELSE [dbPromise |-> Len(requests) + 1, requests |-> Append(requests, NewRequest),
          handed |-> Len(requests) + 1, state |-> "pending"]

mainVars == <<durationMs, edlCuts, selectedCut, pc, plan, keptDurationMs, rangeVars,
              hostVars, xpc, phases, attempts, encoded, result, storeVars, storeLog,
              capture, resources, sample>>

CallOpenDb(by) ==
    /\ Len(openCalls) < MaxCalls
    /\ dbPromise = 0 /\ idbAvailable => Len(openRequests) < MaxOpens
    /\ LET opened == openDb(dbPromise, openRequests, idbAvailable)
       IN /\ dbPromise' = opened.dbPromise
          /\ openRequests' = opened.requests
          /\ openCalls' = Append(openCalls,
                OpenCall(by, dbPromise, opened.handed, opened.state))
    /\ UNCHANGED <<mainVars, shortsVars, laterVars, idbAvailable>>

\* putAssetRecord: const db = await openDb()
PutAssetRecord == CallOpenDb("putAssetRecord")

\* getAssetRecord: const db = await openDb()
GetAssetRecord == CallOpenDb("getAssetRecord")

\* request.onupgradeneeded: the object store is created
OnUpgradeNeeded(i) ==
    /\ ~openRequests[i].done
    /\ ~openRequests[i].upgraded
    /\ openRequests' = [openRequests EXCEPT ![i].upgraded = TRUE]
    /\ UNCHANGED <<mainVars, shortsVars, laterVars, idbAvailable, dbPromise, openCalls>>

\* request.onerror: the cache is cleared, then the promise rejected
OnError(i) ==
    /\ ~openRequests[i].done
    /\ dbPromise' = 0
    /\ openRequests' = [openRequests EXCEPT
            ![i].promise = settlePromise(@, "rejected"), ![i].done = TRUE]
    /\ UNCHANGED <<mainVars, shortsVars, laterVars, idbAvailable, openCalls>>

OnBlockedKeepingCache(i) ==
    /\ ~openRequests[i].done
    /\ ~openRequests[i].upgraded
    /\ ~openRequests[i].blocked
    /\ dbPromise' = dbPromise
    /\ openRequests' = [openRequests EXCEPT
            ![i].promise = settlePromise(@, "rejected"), ![i].blocked = TRUE]
    /\ UNCHANGED <<mainVars, shortsVars, laterVars, idbAvailable, openCalls>>

\* request.onblocked: the cache is cleared, then the promise rejected; the
\* request itself stays open and may still succeed or fail
OnBlocked(i) ==
    /\ ~openRequests[i].done
    /\ ~openRequests[i].upgraded
    /\ ~openRequests[i].blocked
    /\ dbPromise' = 0
    /\ openRequests' = [openRequests EXCEPT
            ![i].promise = settlePromise(@, "rejected"), ![i].blocked = TRUE]
    /\ UNCHANGED <<mainVars, shortsVars, laterVars, idbAvailable, openCalls>>

\* request.onsuccess: the promise is resolved with the database
OnSuccess(i) ==
    /\ ~openRequests[i].done
    /\ openRequests' = [openRequests EXCEPT
            ![i].promise = settlePromise(@, "resolved"), ![i].done = TRUE]
    /\ UNCHANGED <<mainVars, shortsVars, laterVars, idbAvailable, dbPromise, openCalls>>

InitIdb ==
    /\ durationMs = 0
    /\ edlCuts = <<>>
    /\ EditorIdle
    /\ ExportIdle
    /\ idbAvailable \in BOOLEAN
    /\ IdbIdle
    /\ transcript = <<>>
    /\ ShortsIdle
    /\ LaterIdle

NextIdb ==
    \/ PutAssetRecord
    \/ GetAssetRecord
    \/ \E i \in DOMAIN openRequests : OnUpgradeNeeded(i)
    \/ \E i \in DOMAIN openRequests : OnError(i)
    \/ \E i \in DOMAIN openRequests : OnBlocked(i)
    \/ \E i \in DOMAIN openRequests : OnSuccess(i)

SpecIdb == InitIdb /\ [][NextIdb]_vars

----------------------------------------------------------------------------
\* features/shorts: the short-candidate engine

\* Signals and weights are fractions; the engine's floating-point sums are
\* taken exactly (a score that lands on a half point may differ by one from
\* the IEEE result, nothing else does).
RECURSIVE GCD(_, _)
GCD(a, b) == IF b = 0 THEN a ELSE GCD(b, a % b)

Frac(n, d) == LET g == GCD(n, d) IN [n |-> n \div g, d |-> d \div g]
Zero == [n |-> 0, d |-> 1]
One == [n |-> 1, d |-> 1]
FAdd(a, b) == Frac(a.n * b.d + b.n * a.d, a.d * b.d)
FMul(a, b) == Frac(a.n * b.n, a.d * b.d)
FLeq(a, b) == a.n * b.d <= b.n * a.d
FMin(a, b) == IF FLeq(a, b) THEN a ELSE b
FMax(a, b) == IF FLeq(a, b) THEN b ELSE a
\* 1 - a, for 0 <= a <= 1
FComplement(a) == Frac(a.d - a.n, a.d)
\* Math.round(a * 100), for a >= 0
RoundPercent(a) == (200 * a.n + a.d) \div (2 * a.d)

HARD_MAX_MS == 75000

LENGTH_PRESETS ==
    [fast |-> [minMs |-> 15000, maxMs |-> 30000],
     default |-> [minMs |-> 25000, maxMs |-> 45000],
     standard |-> [minMs |-> 30000, maxMs |-> 60000]]

LengthPresets == {"fast", "default", "standard"}
Preset(name) ==
    IF name = "fast" THEN LENGTH_PRESETS.fast
    ELSE IF name = "default" THEN LENGTH_PRESETS.default
    ELSE LENGTH_PRESETS.standard

\* the weights in hundredths
INTENT_WEIGHTS ==
    [teaser_funnel |->
        [hook |-> 30, completeness |-> 0, curiosity |-> 25, clarity |-> 25,
         humor |-> 0, lengthFit |-> 20],
     ctr_hook |->
        [hook |-> 45, completeness |-> 25, curiosity |-> 0, clarity |-> 10,
         humor |-> 0, lengthFit |-> 20],
     value_evergreen |->
        [hook |-> 15, completeness |-> 35, curiosity |-> 0, clarity |-> 35,
         humor |-> 0, lengthFit |-> 15],
     community_personality |->
        [hook |-> 25, completeness |-> 0, curiosity |-> 0, clarity |-> 20,
         humor |-> 35, lengthFit |-> 20]]

Intents == {"teaser_funnel", "ctr_hook", "value_evergreen", "community_personality"}
Weights(intent) ==
    IF intent = "teaser_funnel" THEN INTENT_WEIGHTS.teaser_funnel
    ELSE IF intent = "ctr_hook" THEN INTENT_WEIGHTS.ctr_hook
    ELSE IF intent = "value_evergreen" THEN INTENT_WEIGHTS.value_evergreen
    ELSE INTENT_WEIGHTS.community_personality

\* The segment texts of the model, each with what the engine's string tests
\* find in it: a question, a joke, and a flat clause without punctuation.
\*   question  "why does it work?"
\*   joke      "but that joke is so funny lol."
\*   flat      "the render queue drains overnight"
\* and a quip with two humor phrases:
\*   quip      "that was funny lol."
Texts == {"question", "joke", "flat"}
WindowTexts == {"flat", "quip"}

\* text.includes("?")
hasQuestionMark(t) == t = "question"
\* hookPhrases.some(includes): "why"
hasHookPhrase(t) == t = "question"
\* /\bwhy\b|\bhow\b|\bwhat\b/
hasWhyHowWhat(t) == t = "question"
\* contrastPhrases.some(includes): "but"
hasContrast(t) == t = "joke"
\* resolvePhrases.some(includes): "so"
hasResolve(t) == t = "joke"
\* /[.!?]\s*$/
endsSentence(t) == t \in {"question", "joke", "quip"}
\* endsWith("?") || endsWith("...")
endsOpen(t) == t = "question"
\* curiosityEndings.some(endsWith)
endsCurious(t) == t = "question"
\* the words [a-z0-9']+ and those of them that are pronouns
wordCount(t) == IF t \in {"question", "quip"} THEN 4 ELSE IF t = "joke" THEN 7 ELSE 5
pronounCount(t) == IF t = "flat" THEN 0 ELSE 1
\* includes("as we said") || includes("as mentioned") || includes("as noted")
refersBack(t) == FALSE
\* the humorPhrases the text includes
humorPhrasesIn(t) ==
    IF t = "joke" THEN {"lol", "funny", "joke"}
    ELSE IF t = "quip" THEN {"lol", "funny"}
    ELSE {}

\* isGoodBoundary(text): terminal punctuation, or a contrast / resolve cue in
\* the last fifth (the joke's cues are in its first four fifths, the flat
\* clause has none)
isGoodBoundary(t) == endsSentence(t)

Segment(id, startMs, endMs, text) ==
    [id |-> id, startMs |-> startMs, endMs |-> endMs, text |-> text]

RECURSIVE filterTimed(_)
filterTimed(segs) ==
    IF segs = <<>> THEN <<>>
    ELSE IF Head(segs).endMs > Head(segs).startMs
         THEN <<Head(segs)>> \o filterTimed(Tail(segs))
         ELSE filterTimed(Tail(segs))

\* Array.prototype.sort is stable: a segment goes after those that start
\* no later
RECURSIVE insertByStart(_, _)
insertByStart(sorted, seg) ==
    IF sorted = <<>> THEN <<seg>>
    ELSE IF Head(sorted).startMs <= seg.startMs
         THEN <<Head(sorted)>> \o insertByStart(Tail(sorted), seg)
         ELSE <<seg>> \o sorted

RECURSIVE sortByStart(_)
sortByStart(segs) ==
    IF segs = <<>> THEN <<>>
    ELSE insertByStart(sortByStart(SubSeq(segs, 1, Len(segs) - 1)), segs[Len(segs)])

\* normalizeSegments: the timed segments with text (every text of the model is
\* non-empty), by start time
normalizeSegments(doc) == sortByStart(filterTimed(doc))

\* the texts of the segments, which the code joins with spaces: a test of the
\* joined text holds when it holds of one of them, and a count over the joined
\* text is the sum of their counts
textsOf(segs) == {segs[i].text : i \in DOMAIN segs}

RECURSIVE sumOf(_)
sumOf(ns) == IF ns = <<>> THEN 0 ELSE Head(ns) + sumOf(Tail(ns))

\* scoreHook(openingText): 0.2, +0.4, +0.4, +0.1, at most 1, in tenths
scoreHook(opening) ==
    Frac(Min(10, 2 + (IF (\E t \in textsOf(opening) : hasQuestionMark(t)) THEN 4 ELSE 0)
                   + (IF (\E t \in textsOf(opening) : hasHookPhrase(t)) THEN 4 ELSE 0)
                   + (IF (\E t \in textsOf(opening) : hasWhyHowWhat(t)) THEN 1 ELSE 0)), 10)

scoreCompleteness(full) ==
    Frac(Min(2, (IF (\E t \in textsOf(full) : hasContrast(t)) THEN 1 ELSE 0)
                + (IF (\E t \in textsOf(full) : hasResolve(t)) THEN 1 ELSE 0)), 2)

\* the end of the joined text is the end of its last segment
scoreCuriosity(full) ==
    Frac(Min(10, (IF endsOpen(full[Len(full)].text) THEN 6 ELSE 0)
                 + (IF endsCurious(full[Len(full)].text) THEN 4 ELSE 0)), 10)

scoreClarity(opening) ==
    LET words == sumOf([i \in DOMAIN opening |-> wordCount(opening[i].text)])
        pronouns == sumOf([i \in DOMAIN opening |-> pronounCount(opening[i].text)])
        ratio == Frac(pronouns, Max(1, words))
        base == FComplement(FMin(One, FMul(ratio, Frac(3, 2))))
        score == IF (\E t \in textsOf(opening) : refersBack(t))
                 THEN IF FLeq(Frac(1, 5), base)
                      THEN Frac(base.n * 5 - base.d, base.d * 5)
                      ELSE Zero
                 ELSE base
    IN FMax(Zero, FMin(One, score))

\* scoreHumor: a quarter for each humor phrase the joined text includes
scoreHumor(full) ==
    Frac(Min(4, Cardinality(UNION {humorPhrasesIn(t) : t \in textsOf(full)})), 4)

\* scoreLengthFit, with ideal and halfRange doubled to stay in integers
scoreLengthFit(duration, preset) ==
    LET range == Max(2, preset.maxMs - preset.minMs)
        twice == 2 * duration - (preset.minMs + preset.maxMs)
        deviation == IF twice < 0 THEN 0 - twice ELSE twice
    IN FMax(Zero, FComplement(FMin(One, Frac(deviation, range))))

buildSignals(segs, duration, preset) ==
    LET opening == SubSeq(segs, 1, Min(2, Len(segs)))
    IN [hook |-> scoreHook(opening),
        completeness |-> scoreCompleteness(segs),
        curiosity |-> scoreCuriosity(segs),
        clarity |-> scoreClarity(opening),
        humor |-> scoreHumor(segs),
        lengthFit |-> scoreLengthFit(duration, preset)]

\* signal >= threshold
Reaches(signal, threshold) == FLeq(threshold, signal)

buildReasons(signals) ==
    LET reasons ==
            (IF Reaches(signals.hook, Frac(6, 10)) THEN <<"Hook">> ELSE <<>>)
            \o (IF Reaches(signals.completeness, Frac(6, 10))
                THEN <<"Complete thought">> ELSE <<>>)
            \o (IF Reaches(signals.curiosity, Frac(6, 10))
                THEN <<"Curiosity gap">> ELSE <<>>)
            \o (IF Reaches(signals.humor, Frac(5, 10)) THEN <<"Funny">> ELSE <<>>)
            \o (IF Reaches(signals.clarity, Frac(6, 10))
                THEN <<"Clear/Standalone">> ELSE <<>>)
            \o (IF Reaches(signals.lengthFit, Frac(6, 10))
                THEN <<"Length fit">> ELSE <<>>)
    IN IF reasons = <<>> THEN <<"Good fit">> ELSE reasons

Weighted(signal, hundredths) == FMul(signal, Frac(hundredths, 100))

computeScore(signals, intent) ==
    LET weights == Weights(intent)
        total ==
            FAdd(Weighted(signals.hook, weights.hook),
            FAdd(Weighted(signals.completeness, weights.completeness),
            FAdd(Weighted(signals.curiosity, weights.curiosity),
            FAdd(Weighted(signals.clarity, weights.clarity),
            FAdd(Weighted(signals.humor, weights.humor),
                 Weighted(signals.lengthFit, weights.lengthFit))))))
    IN RoundPercent(FMax(Zero, FMin(One, total)))

\* overlapRatio(a, b) > 0.7, on integers: overlap / max(1, minDuration) > 7/10
tooSimilarLoose(a, b) ==
    LET overlap == Min(a.endMs, b.endMs) - Max(a.startMs, b.startMs)
        minDuration == Min(a.endMs - a.startMs, b.endMs - b.startMs)
    IN overlap > 0 /\ 10 * overlap > 9 * Max(1, minDuration)

tooSimilar(a, b) ==
    LET overlap == Min(a.endMs, b.endMs) - Max(a.startMs, b.startMs)
        minDuration == Min(a.endMs - a.startMs, b.endMs - b.startMs)
    IN overlap > 0 /\ 10 * overlap > 7 * Max(1, minDuration)

\* sort((a, b) => b.score - a.score), stable
RECURSIVE insertByScore(_, _)
insertByScore(sorted, c) ==
    IF sorted = <<>> THEN <<c>>
    ELSE IF Head(sorted).score >= c.score
         THEN <<Head(sorted)>> \o insertByScore(Tail(sorted), c)
         ELSE <<c>> \o sorted

RECURSIVE sortByScore(_)
sortByScore(cs) ==
    IF cs = <<>> THEN <<>>
    ELSE insertByScore(sortByScore(SubSeq(cs, 1, Len(cs) - 1)), cs[Len(cs)])

RECURSIVE keepDistinct(_, _)
keepDistinct(sorted, kept) ==
    IF sorted = <<>> THEN kept
    ELSE IF \E i \in DOMAIN kept : tooSimilar(Head(sorted), kept[i])
         THEN keepDistinct(Tail(sorted), kept)
         ELSE keepDistinct(Tail(sorted), Append(kept, Head(sorted)))

dedupeUnsorted(cs) == keepDistinct(cs, <<>>)

dedupeCandidates(cs) == keepDistinct(sortByScore(cs), <<>>)

NoWindow == [found |-> FALSE, endIndex |-> 0, endMs |-> 0]

ceilingHard(preset) == HARD_MAX_MS

\* const maxMs = Math.min(preset.maxMs, HARD_MAX_MS)
ceilingOf(preset) == Min(preset.maxMs, HARD_MAX_MS)

\* a scan that does not wait for the preset minimum
RECURSIVE scanEndNoMinimum(_, _, _, _, _)
scanEndNoMinimum(segs, startMs, endIndex, preset, maxMs) ==
    IF endIndex > Len(segs) THEN NoWindow
    ELSE LET duration == segs[endIndex].endMs - startMs
             endMs == IF duration > maxMs THEN startMs + maxMs ELSE segs[endIndex].endMs
         IN IF isGoodBoundary(segs[endIndex].text) \/ endMs >= startMs + maxMs
            THEN [found |-> TRUE, endIndex |-> endIndex, endMs |-> endMs]
            ELSE scanEndNoMinimum(segs, startMs, endIndex + 1, preset, maxMs)

\* the inner loop of generateShortSuggestions: the first end index, from
\* endIndex on, where the window is long enough and ends on a good boundary or
\* at the ceiling
RECURSIVE scanEnd(_, _, _, _, _)
scanEnd(segs, startMs, endIndex, preset, maxMs) ==
    IF endIndex > Len(segs) THEN NoWindow
    ELSE LET duration == segs[endIndex].endMs - startMs
             endMs == IF duration > maxMs THEN startMs + maxMs ELSE segs[endIndex].endMs
         IN IF duration < preset.minMs
            THEN scanEnd(segs, startMs, endIndex + 1, preset, maxMs)
            ELSE IF isGoodBoundary(segs[endIndex].text) \/ endMs >= startMs + maxMs
            THEN [found |-> TRUE, endIndex |-> endIndex, endMs |-> endMs]
            ELSE scanEnd(segs, startMs, endIndex + 1, preset, maxMs)

RECURSIVE segmentIdsOf(_)
segmentIdsOf(segs) ==
    IF segs = <<>> THEN <<>> ELSE <<Head(segs).id>> \o segmentIdsOf(Tail(segs))

\* the outer loop: the candidate windows of the start indices from startIndex on
RECURSIVE enumerateFrom(_, _, _, _)
enumerateFrom(segs, startIndex, presetName, intent) ==
    IF startIndex > Len(segs) THEN <<>>
    ELSE LET preset == Preset(presetName)
             maxMs == ceilingOf(preset)
             startMs == segs[startIndex].startMs
             window == scanEnd(segs, startMs, startIndex, preset, maxMs)
             windowSegments == SubSeq(segs, startIndex, window.endIndex)
             signals == buildSignals(windowSegments, window.endMs - startMs, preset)
             rest == enumerateFrom(segs, startIndex + 1, presetName, intent)
         IN IF window.found
            THEN <<[startIndex |-> startIndex,
                    endIndex |-> window.endIndex,
                    startMs |-> startMs,
                    endMs |-> window.endMs,
                    score |-> computeScore(signals, intent),
                    signals |-> signals,
                    segmentIds |-> segmentIdsOf(windowSegments)]>> \o rest
            ELSE rest

enumerateCandidates(doc, intent, presetName) ==
    enumerateFrom(normalizeSegments(doc), 1, presetName, intent)

Suggestion(c) ==
    [startMs |-> c.startMs, endMs |-> c.endMs, score |-> c.score,
     reasonTags |-> buildReasons(c.signals), segmentIds |-> c.segmentIds]

RECURSIVE toSuggestions(_)
toSuggestions(cs) ==
    IF cs = <<>> THEN <<>> ELSE <<Suggestion(Head(cs))>> \o toSuggestions(Tail(cs))

sliceAll(cs, n) == cs

\* Array.prototype.slice(0, n) for n >= 0
sliceTo(cs, n) == SubSeq(cs, 1, Min(n, Len(cs)))

\* generateShortSuggestions up to its return statement: the candidate windows
\* it enumerated and what dedupeCandidates kept of them
shortCandidates(doc, intent, presetName) ==
    LET enumerated == enumerateCandidates(doc, intent, presetName)
    IN [enumerated |-> enumerated,
        deduped |-> IF normalizeSegments(doc) = <<>> THEN <<>>
                    ELSE dedupeCandidates(enumerated)]

\* the return statement: deduped.sort(by score).slice(0, maxSuggestions).map(...)
topSuggestions(deduped, cap) == toSuggestions(sliceTo(sortByScore(deduped), cap))

generateShortSuggestions(doc, intent, presetName, cap) ==
    topSuggestions(shortCandidates(doc, intent, presetName).deduped, cap)

\* EditorPage: hasTimestampedTranscript
hasTimestampedTranscript(doc) ==
    \E i \in DOMAIN doc : doc[i].endMs > doc[i].startMs

\* The transcripts of the model: up to MaxSegs segments in any order, each a
\* point timestamp or one of three overlapping timed spans with one of the texts
TimedSpans == {Range(0, 20000), Range(5000, 25000), Range(10000, 30000)}
SegmentChoices ==
    {[span |-> Range(5000, 5000), text |-> "question"]}
    \cup {[span |-> sp, text |-> t] : sp \in TimedSpans, t \in Texts}
transcriptOf(choices) ==
    [i \in DOMAIN choices |->
        Segment(i, choices[i].span.inMs, choices[i].span.outMs, choices[i].text)]
Transcripts == {transcriptOf(choices) : choices \in SeqsUpTo(SegmentChoices, MaxSegs)}

\* the caps a caller of generateShortSuggestions passes
SuggestionCaps == {1, 2}

\* handleGenerateShorts: !project.transcript || shortsBlocked
shortsBlocked(segs) == ~hasTimestampedTranscript(segs)

\* handleGenerateShorts with the intent and the preset the panel opens with: a
\* blocked transcript gets the error and an empty list, any other transcript
\* the engine's suggestions under the cap 20
HandleGenerateShorts ==
    /\ shortsPc = "ready"
    /\ shortsPc' = "handler"
    /\ maxSuggestions' = 20
    /\ IF shortsBlocked(transcript)
       THEN /\ shortsError' = "Need VTT/SRT timestamps."
            /\ shortSuggestions' = <<>>
            /\ candidates' = <<>>
            /\ shortsStatus' = shortsStatus
       ELSE \E run \in {shortCandidates(transcript, shortIntent, shortPreset)} :
               /\ shortsError' = "none"
               /\ shortSuggestions' = topSuggestions(run.deduped, 20)
               /\ candidates' = run.enumerated
               /\ shortsStatus' = "idle"
    /\ UNCHANGED <<mainVars, idbVars, laterVars, transcript, shortIntent, shortPreset>>

\* generateShortSuggestions(transcript, intent, lengthPreset, maxSuggestions)
\* called as the module exports it, with any intent, preset and cap
GenerateShortSuggestions ==
    /\ shortsPc = "ready"
    /\ shortsPc' = "engine"
    /\ \E intent \in Intents : \E preset \in LengthPresets :
        \E run \in {shortCandidates(transcript, intent, preset)} :
            \E cap \in SuggestionCaps :
                /\ shortIntent' = intent
                /\ shortPreset' = preset
                /\ maxSuggestions' = cap
                /\ shortSuggestions' = topSuggestions(run.deduped, cap)
                /\ candidates' = run.enumerated
    /\ UNCHANGED <<mainVars, idbVars, laterVars, transcript, shortsStatus, shortsError>>

InitShorts ==
    /\ durationMs = 0
    /\ edlCuts = <<>>
    /\ EditorIdle
    /\ ExportIdle
    /\ idbAvailable = TRUE
    /\ IdbIdle
    /\ transcript \in Transcripts
    /\ ShortsIdle
    /\ LaterIdle

NextShorts ==
    \/ HandleGenerateShorts
    \/ GenerateShortSuggestions

SpecShorts == InitShorts /\ [][NextShorts]_vars

\* The transcripts that make windows of several segments: two adjoining ten
\* second spans and a later one after a gap, each flat or a quip
WindowSpans == {Range(0, 10000), Range(10000, 20000), Range(35000, 50000)}
WindowChoices == {[span |-> sp, text |-> t] : sp \in WindowSpans, t \in WindowTexts}
WindowTranscripts ==
    {transcriptOf(choices) : choices \in SeqsUpTo(WindowChoices, MaxSegs)}

InitWindows ==
    /\ durationMs = 0
    /\ edlCuts = <<>>
    /\ EditorIdle
    /\ ExportIdle
    /\ idbAvailable = TRUE
    /\ IdbIdle
    /\ transcript \in WindowTranscripts
    /\ ShortsIdle
    /\ LaterIdle

SpecWindows == InitWindows /\ [][NextShorts]_vars

----------------------------------------------------------------------------
\* Range algebra: what the claims speak of

FullPlan == plan.mode = "full"
ClipPlan == plan.mode = "clip"

\* t lies inside a cut taken as the half-open interval [inMs, outMs)
InsideCut(t, cuts) == \E i \in DOMAIN cuts : cuts[i].inMs <= t /\ t < cuts[i].outMs

\* t lies inside a kept range taken as half-open / as closed
InsideKept(t, ranges) == \E i \in DOMAIN ranges : ranges[i].inMs <= t /\ t < ranges[i].outMs
WithinKept(t, ranges) == \E i \in DOMAIN ranges : ranges[i].inMs <= t /\ t <= ranges[i].outMs

\* the number of surviving milliseconds before source instant t
KeptBefore(t, cuts) == Cardinality({u \in 0..(t - 1) : ~InsideCut(u, cuts)})

\* C1: normalizeCuts returns ranges with 0 <= inMs < outMs <= max(durationMs, 0),
\* sorted ascending by inMs and coalesced (each inMs strictly after the previous
\* outMs), whatever the cut list and the duration.
C1_NormalizeCutsCanonical ==
    FullPlan =>
        LET n == plan.cuts
            m == Max(plan.sourceDurationMs, 0)
        IN \A i \in DOMAIN n :
            /\ 0 <= n[i].inMs
            /\ n[i].inMs < n[i].outMs
            /\ n[i].outMs <= m
            /\ i > 1 => /\ n[i - 1].inMs <= n[i].inMs
                        /\ n[i].inMs > n[i - 1].outMs

\* two raw cuts, given out of order and touching, came out as one range
C1_Witness ==
    /\ pc = "plan" /\ FullPlan
    /\ Len(edlCuts) = 2
    /\ edlCuts[2].inMs >= 0 /\ edlCuts[2].inMs < edlCuts[2].outMs
    /\ edlCuts[2].outMs = edlCuts[1].inMs
    /\ edlCuts[1].outMs > edlCuts[1].inMs /\ edlCuts[1].outMs <= durationMs
    /\ plan.cuts = <<Range(edlCuts[2].inMs, edlCuts[1].outMs)>>

\* C2: for durationMs > 0 and normalized cuts, computeKeptRanges is exactly the
\* complement of the cuts in [0, durationMs): sorted, positive spans, disjoint,
\* no gap; no cuts gives {0, durationMs}, the cut {0, durationMs} gives nothing,
\* and durationMs <= 0 gives nothing.
C2_KeptIsComplement ==
    (pc = "kept" /\ FullPlan) =>
        LET d == plan.sourceDurationMs
            cuts == plan.cuts
            kept == keptRanges
        IN /\ d <= 0 => kept = <<>>
           /\ d > 0 =>
                /\ \A i \in DOMAIN kept :
                    /\ 0 <= kept[i].inMs
                    /\ kept[i].inMs < kept[i].outMs
                    /\ kept[i].outMs <= d
                    /\ i > 1 => kept[i].inMs >= kept[i - 1].outMs
                /\ \A t \in 0..(d - 1) : InsideKept(t, kept) <=> ~InsideCut(t, cuts)
                /\ cuts = <<>> => kept = <<Range(0, d)>>
                /\ cuts = <<Range(0, d)>> => kept = <<>>

\* one cut in the middle of the source leaves a range on each side
C2_Witness ==
    /\ pc = "kept" /\ FullPlan
    /\ Len(plan.cuts) = 1
    /\ Len(keptRanges) = 2
    /\ keptRanges[1].outMs = plan.cuts[1].inMs
    /\ keptRanges[2].inMs = plan.cuts[1].outMs

\* C3: round trip from the source side: for sourceMs outside every cut,
\* mapKeptMsToSourceMs(mapSourceMsToKeptMs(sourceMs)) = sourceMs, the first
\* instant of a second or later kept range included.  Stated for the instants
\* 0 <= sourceMs < durationMs, each of which some kept range holds.
C3_SourceRoundTrip ==
    (/\ pc = "roundtrip" /\ FullPlan
     /\ query.fn = "mapSourceMsToKeptMs"
     /\ 0 <= query.arg.value /\ query.arg.value < plan.sourceDurationMs
     /\ ~InsideCut(query.arg.value, plan.cuts))
    => inverse = query.arg

\* C4: for sourceMs in [0, durationMs), mapSourceMsToKeptMs is null exactly when
\* sourceMs is inside a cut [inMs, outMs), and otherwise is the kept time before
\* sourceMs (spans of the earlier kept ranges plus the offset in its own).
C4_SourceToKept ==
    (/\ pc = "mapped" /\ FullPlan
     /\ query.fn = "mapSourceMsToKeptMs"
     /\ 0 <= query.arg.value /\ query.arg.value < plan.sourceDurationMs)
    => IF InsideCut(query.arg.value, plan.cuts)
       THEN query.res = Null
       ELSE query.res = Num(KeptBefore(query.arg.value, plan.cuts))

C6_KeptDurationIsSumOfSpans ==
    (pc = "kept" /\ FullPlan) =>
        /\ keptDurationMs = SumSpans(keptRanges)
        /\ keptDurationMs >= 0

\* a project with two separate cuts and something left over
C6_Witness ==
    /\ pc = "kept" /\ FullPlan
    /\ Len(plan.cuts) = 2
    /\ keptDurationMs > 0
    /\ keptDurationMs = plan.sourceDurationMs - SumSpans(plan.cuts)

\* C7: computeKeptRangesForPlan(buildClipPlan(project, cut)) is exactly the one
\* range of that cut when 0 <= inMs < outMs <= source duration, whatever other
\* cuts the project holds, and is empty when the clamped clip range is empty.
C7_ClipPlanKeepsTheCut ==
    (pc = "kept" /\ ClipPlan) =>
        LET m == Max(durationMs, 0)
            lo == Max(0, Min(selectedCut.inMs, m))
            hi == Max(0, Min(selectedCut.outMs, m))
        IN /\ (0 <= selectedCut.inMs /\ selectedCut.inMs < selectedCut.outMs
               /\ selectedCut.outMs <= durationMs)
              => keptRanges = <<Range(selectedCut.inMs, selectedCut.outMs)>>
           /\ hi <= lo => keptRanges = <<>>

\* the clip of a cut strictly inside the source: what a full plan would
\* remove is the one range the clip plan keeps
C7_Witness ==
    /\ pc = "kept" /\ ClipPlan
    /\ 0 < selectedCut.inMs /\ selectedCut.inMs < selectedCut.outMs
    /\ selectedCut.outMs < durationMs
    /\ plan.clipRangeMs = selectedCut
    /\ keptRanges = <<selectedCut>>

----------------------------------------------------------------------------
\* Export orchestrator: what the claims speak of

Exporting == pc = "export"
EncodingDone == xpc \in {"encoded", "putAsset", "resolved", "rejected"}

\* the place of a backend in the priority order
Rank(engine) == CHOOSE i \in DOMAIN Engines : Engines[i] = engine

\* C8: when the WebCodecs capability probe fails, exportFull never throws: it
\* resolves with engine "mediaRecorder" or "placeholder", whatever the plan, the
\* request and the collaborators do.
C8_ExportNeverThrows ==
    (Exporting /\ ~hasWebCodecs) =>
        /\ xpc # "rejected"
        /\ xpc = "resolved" => result.engine \in {"mediaRecorder", "placeholder"}

\* C9: the backends are entered in the order webcodecs, mediaRecorder,
\* placeholder, each at most once; webcodecs only for a webm request on a host
\* that passes the probe; a later backend only after every earlier one entered
\* has failed; and the result carries the engine of the first that succeeded.
C9_FallbackOrder ==
    Exporting =>
        LET n == Len(attempts)
        IN /\ \A i \in 1..n : \A j \in 1..n :
                i < j => Rank(attempts[i].engine) < Rank(attempts[j].engine)
           /\ \A i \in 1..n :
                attempts[i].engine = "webcodecs" =>
                    request.container = "webm" /\ hasWebCodecs
           /\ \A i \in 1..n : i < n => attempts[i].outcome = "failed"
           /\ EncodingDone =>
                /\ n >= 1
                /\ attempts[n].outcome = "ok"
                /\ encoded.engine = attempts[n].engine
           /\ xpc = "resolved" => result.engine = attempts[n].engine

\* all three backends were entered in turn and the placeholder's bytes were saved
C9_Witness ==
    /\ xpc = "resolved"
    /\ attempts = <<Attempt("webcodecs", "failed"), Attempt("mediaRecorder", "failed"),
                    Attempt("placeholder", "ok")>>
    /\ result.engine = "placeholder"

\* C10: within one exportFull call onPhase hears preparing, encoding, saving in
\* that order, each at most once and none skipped: what it has heard so far is
\* always a prefix of that order, and all of it once the call resolves.
C10_PhaseOrder ==
    /\ Len(phases) <= Len(Phases)
    /\ phases = SubSeq(Phases, 1, Len(phases))
    /\ xpc = "resolved" => phases = Phases

\* a call that resolved after reporting the three phases
C10_Witness ==
    /\ xpc = "resolved"
    /\ phases = <<"preparing", "encoding", "saving">>
    /\ result.engine = "mediaRecorder"

\* C19: for every plan, in full mode and in clip mode, the durationMs of the
\* ExportResult of exportFull equals the sum of the spans of
\* computeKeptRangesForPlan(plan), the duration of the ranges the backends export
\* (the placeholder exports no range and is left aside).
C19_ResultDurationIsExportedDuration ==
    (xpc = "resolved" /\ result.engine # "placeholder") =>
        result.durationMs = SumSpans(computeKeptRangesForPlan(plan))

----------------------------------------------------------------------------
\* Export and the asset store: what the claims speak of

\* C11: any rejection by the asset store during exportFull, from getAsset or
\* from putAsset, is treated as an encoding-backend failure: the backend that
\* made the call is marked failed and a later backend takes over, and the
\* rejection never reaches the caller of exportFull.
C11_StoreRejectionsAdvanceTheChain ==
    \A i \in DOMAIN storeLog :
        storeLog[i].outcome = "rejected" =>
            /\ xpc # "rejected"
            /\ \E j \in DOMAIN attempts :
                /\ attempts[j].engine = storeLog[i].by
                /\ attempts[j].outcome = "failed"
                /\ j < Len(attempts)

\* the bytes an asset id stood for before the export
InitialAssetIds == DOMAIN InitialStore \cup DOMAIN InitialRecords
InitialBytes(id) ==
    IF id \in DOMAIN InitialRecords THEN InitialRecords[id] ELSE InitialStore[id]

\* C12: exports are append-only: the source asset is only read by getAsset,
\* the output is stored by one putAsset under an id no asset had before, and
\* every asset that existed before the call, the source included, keeps its id
\* and its bytes in the memory map and in IndexedDB.
C12_ExportsAreAppendOnly ==
    Exporting =>
        /\ \A id \in DOMAIN InitialRecords :
            id \in DOMAIN assetRecords /\ assetRecords[id] = InitialRecords[id]
        /\ \A id \in DOMAIN InitialStore :
            id \in DOMAIN assetStore /\ assetStore[id] = InitialStore[id]
        /\ \A id \in InitialAssetIds :
            id \in DOMAIN assetStore => assetStore[id] = InitialBytes(id)
        /\ \A i \in DOMAIN storeLog :
            storeLog[i].op = "putAsset" => storeLog[i].by = "exportFull" /\ i = Len(storeLog)
        /\ xpc = "resolved" =>
            /\ result.assetId \notin InitialAssetIds
            /\ assetStore[result.assetId] = encoded.engine
            /\ DOMAIN assetRecords \subseteq InitialAssetIds \cup {result.assetId}
            /\ DOMAIN assetStore \subseteq InitialAssetIds \cup {result.assetId}

\* an export that read the source through IndexedDB, recorded it and saved
\* the recording next to the source and the earlier export
C12_Witness ==
    /\ xpc = "resolved"
    /\ result.engine = "mediaRecorder"
    /\ result.assetId = AssetId("local", "id_2")
    /\ result.assetId \in DOMAIN assetRecords
    /\ assetStore[SourceAssetId] = "source"
    /\ assetRecords[SourceAssetId] = "source"
    /\ assetRecords[result.assetId] = "mediaRecorder"
    /\ assetRecords[EarlierAssetId] = "earlier"

\* start, then seek and play of each range in turn, then stop
RECURSIVE seekAndPlay(_)
seekAndPlay(ranges) ==
    IF ranges = <<>> THEN <<>>
    ELSE <<RecorderOp("seek", Head(ranges).inMs), RecorderOp("play", Head(ranges).outMs)>>
         \o seekAndPlay(Tail(ranges))
ExpectedCapture(ranges) ==
    <<RecorderOp("start", 0)>> \o seekAndPlay(ranges) \o <<RecorderOp("stop", 0)>>

\* C13: the capture-and-record backend processes the kept ranges in ascending
\* source-time order, each exactly once as seek-to-inMs then play-until-outMs,
\* with the recorder started before the first range and stopped only after
\* the last has played: what it has done is always a prefix of that run, and
\* the whole run once it resolves.
C13_RangesRecordedInOrder ==
    Exporting =>
        LET ranges == computeKeptRangesForPlan(plan)
            expected == ExpectedCapture(ranges)
        IN /\ \A i \in DOMAIN ranges : i > 1 => ranges[i - 1].outMs < ranges[i].inMs
           /\ Len(capture) <= Len(expected)
           /\ capture = SubSeq(expected, 1, Len(capture))
           /\ encoded.engine = "mediaRecorder" => capture = expected

\* a recording of a plan that keeps two ranges resolved
C13_Witness ==
    /\ encoded.engine = "mediaRecorder"
    /\ Len(keptRanges) = 2
    /\ Len(capture) = 6
    /\ capture[2].ms < capture[3].ms /\ capture[3].ms < capture[4].ms
    /\ capture[4].ms < capture[5].ms
    /\ capture[6].op = "stop"

\* C20: when the plan requires retiming, the sample-level encoder emits a
\* sample, video or audio, only if its source timestamp lies in a kept range,
\* stamps it with the edited-timeline time of that instant, and clips its
\* duration so that it does not cross the outMs of that range.
C20_SamplesStayInsideKeptRanges ==
    (xpc = "conversion" /\ needsRetiming(plan) /\ sample.kind # "none"
     /\ ~sample.out.dropped) =>
        \E i \in DOMAIN keptRanges :
            /\ keptRanges[i].inMs <= sample.source.timestamp
            /\ sample.source.timestamp <= keptRanges[i].outMs
            /\ sample.out.timestamp =
                SumSpans(SubSeq(keptRanges, 1, i - 1))
                + (sample.source.timestamp - keptRanges[i].inMs)
            /\ sample.source.timestamp + sample.out.duration <= keptRanges[i].outMs

----------------------------------------------------------------------------
\* IndexedDB: what the claims speak of

\* the open request i has failed: its promise was rejected by onerror or onblocked
OpenFailed(i) == openRequests[i].promise = "rejected"

\* C18: a failed IndexedDB open (onerror or onblocked) does not poison later
\* attempts, in any interleaving of open calls with error, blocked and success
\* events: a rejected open promise is never the cached one, no call is handed a
\* rejected promise from the cache, and a call that finds the cache cleared on
\* a host with indexedDB issues a fresh open and is handed its pending promise.
C18_OpenFailuresDoNotPoison ==
    /\ \A i \in DOMAIN openRequests : OpenFailed(i) => dbPromise # i
    /\ \A c \in DOMAIN openCalls :
        LET call == openCalls[c]
        IN /\ call.cacheBefore # 0 =>
                /\ call.promise = call.cacheBefore
                /\ call.state # "rejected"
           /\ (call.cacheBefore = 0 /\ idbAvailable) =>
                /\ call.promise # 0
                /\ call.state = "pending"
                /\ \A b \in DOMAIN openCalls : b < c => openCalls[b].promise # call.promise

\* the first open was blocked and its promise rejected; the next call issued a
\* second open, which succeeded and is the cached one
C18_Witness ==
    /\ Len(openRequests) = 2
    /\ Len(openCalls) >= 2
    /\ openRequests[1].blocked /\ OpenFailed(1)
    /\ openCalls[1].promise = 1
    /\ openCalls[2].promise = 2 /\ openCalls[2].cacheBefore = 0
    /\ openRequests[2].promise = "resolved"
    /\ dbPromise = 2

----------------------------------------------------------------------------
\* Short suggestions: what the claims speak of

\* generateShortSuggestions has returned (called directly, or by the handler on
\* a transcript that is not blocked)
EngineReturned ==
    \/ shortsPc = "engine"
    \/ shortsPc = "handler" /\ shortsError = "none"

\* the overlap of two windows is more than 0.7 of the shorter one
OverlapsOver70(a, b) ==
    LET overlap == Max(0, Min(a.endMs, b.endMs) - Max(a.startMs, b.startMs))
        shorter == Min(a.endMs - a.startMs, b.endMs - b.startMs)
    IN 10 * overlap > 7 * shorter

\* an enumerated window is in the returned list (a window is known by the
\* segments it spans: no two windows start at the same segment)
Returned(c) == \E j \in DOMAIN shortSuggestions : shortSuggestions[j].segmentIds = c.segmentIds

\* C14 as stated: of two enumerated candidate windows that overlap by more than
\* 0.7, the lower-scored is absent from the returned list.
C14_LowerScoredOverlapAbsent ==
    EngineReturned =>
        \A i, j \in DOMAIN candidates :
            (OverlapsOver70(candidates[i], candidates[j])
             /\ candidates[i].score < candidates[j].score)
            => ~Returned(candidates[i])

\* C14 amended: of two enumerated candidate windows that overlap by more than
\* 0.7, at most one is in the returned list, and the lower-scored is absent
\* whenever the higher-scored one is returned.
C14_OverlappingNeverBothReturned ==
    EngineReturned =>
        \A i, j \in DOMAIN candidates :
            (i # j /\ OverlapsOver70(candidates[i], candidates[j])
             /\ Returned(candidates[j]))
            => ~Returned(candidates[i])

\* a question and a joke overlap by three quarters; the higher-scored one was
\* returned, the other was not although the list had room for it
C14_Witness ==
    /\ EngineReturned
    /\ Len(shortSuggestions) < maxSuggestions
    /\ \E i, j \in DOMAIN candidates :
        /\ OverlapsOver70(candidates[i], candidates[j])
        /\ candidates[i].score < candidates[j].score
        /\ Returned(candidates[j])
        /\ ~Returned(candidates[i])

\* C15: every two returned suggestions overlap by at most 0.7, and an enumerated
\* window is missing from the list only if a returned window with a score at
\* least its own overlaps it by more than 0.7, or (the cut to maxSuggestions)
\* the list is full of windows with scores at least its own.
C15_KeptAreDistinctDropsAreJustified ==
    EngineReturned =>
        /\ \A i, j \in DOMAIN shortSuggestions :
            i # j => ~OverlapsOver70(shortSuggestions[i], shortSuggestions[j])
        /\ \A i \in DOMAIN candidates :
            ~Returned(candidates[i]) =>
                \/ \E j \in DOMAIN shortSuggestions :
                    /\ OverlapsOver70(candidates[i], shortSuggestions[j])
                    /\ shortSuggestions[j].score >= candidates[i].score
                \/ /\ Len(shortSuggestions) = maxSuggestions
                   /\ \A j \in DOMAIN shortSuggestions :
                        shortSuggestions[j].score >= candidates[i].score

\* two windows that do not overlap that much were returned, and a third was
\* dropped for a returned window with the same score that overlaps it
C15_Witness ==
    /\ EngineReturned
    /\ Len(shortSuggestions) = 2
    /\ \E i \in DOMAIN candidates : \E j \in DOMAIN shortSuggestions :
        /\ ~Returned(candidates[i])
        /\ OverlapsOver70(candidates[i], shortSuggestions[j])
        /\ shortSuggestions[j].score = candidates[i].score

\* C16: every returned score is an integer in [0, 100], the returned list is in
\* non-increasing score order, and it has at most maxSuggestions entries.
C16_ScoresBoundedOrderedCapped ==
    EngineReturned =>
        /\ \A j \in DOMAIN shortSuggestions : shortSuggestions[j].score \in 0..100
        /\ \A j \in DOMAIN shortSuggestions :
            j > 1 => shortSuggestions[j - 1].score >= shortSuggestions[j].score
        /\ Len(shortSuggestions) <= maxSuggestions

\* dedupeCandidates kept two windows with different scores and the cap was 1:
\* the higher-scored one alone was returned
C16_Witness ==
    /\ shortsPc = "engine"
    /\ maxSuggestions = 1
    /\ Len(shortSuggestions) = 1
    /\ \E i \in DOMAIN candidates :
        /\ ~Returned(candidates[i])
        /\ candidates[i].score < shortSuggestions[1].score
        /\ ~OverlapsOver70(candidates[i], shortSuggestions[1])

\* every segment of the transcript is a point timestamp, and there is one
AllPointTimestamps ==
    /\ transcript # <<>>
    /\ \A i \in DOMAIN transcript : transcript[i].endMs = transcript[i].startMs

\* C17: when every segment of the transcript has endMs = startMs, the engine
\* reports the blocked precondition as an explicit error: it does not return
\* an empty list as a success.
C17_BlockedIsReported ==
    (shortsPc # "ready" /\ AllPointTimestamps) =>
        shortsError = "Need VTT/SRT timestamps."

----------------------------------------------------------------------------
\* The encoder's own mapping against the range algebra's

\* C21: the encoder's private mapping (buildRangeOffsets, then
\* mapSourceMsToKept) agrees with mapSourceMsToKeptMs on the kept ranges of the
\* plan: a sample is dropped as unmapped exactly when mapSourceMsToKeptMs is
\* null, and is otherwise retimed to the keptMs mapSourceMsToKeptMs gives.  The
\* audio callback emits every mapped sample; the video callback also drops a
\* mapped sample for which no time is left in its range.
C21_PrivateMappingAgrees ==
    (sample.kind # "none" /\ needsRetiming(plan)) =>
        LET canonical == mapSourceMsToKeptMs(Num(sample.source.timestamp), keptRanges)
        IN /\ canonical.isNull => sample.out.dropped
           /\ sample.kind = "audio" => (sample.out.dropped => canonical.isNull)
           /\ ~sample.out.dropped => sample.out.timestamp = canonical.value

\* an audio sample of the second kept range was retimed by the span of the first
C21_Witness ==
    /\ sample.kind = "audio" /\ needsRetiming(plan)
    /\ Len(keptRanges) = 2
    /\ sample.source.timestamp > keptRanges[2].inMs
    /\ ~sample.out.dropped
    /\ sample.out.timestamp =
        (keptRanges[1].outMs - keptRanges[1].inMs)
        + (sample.source.timestamp - keptRanges[2].inMs)

----------------------------------------------------------------------------
\* mediaRecorder.ts: playUntilMs and attemptPlay

mainAndSideVars == <<mainVars, idbVars, shortsVars, previewVars, docsVars, whisperVars>>

PlayTimes == 0..MaxPlayMs
MediaListeners == {"timeupdate", "ended", "error"}
PlayErrors == {"NotAllowedError", "AbortError"}

MediaEvent(event, time) == [event |-> event, time |-> time]

\* resolve() or reject(): the first call settles the promise, a later call
\* is counted and changes nothing
settleWith(u, outcome) ==
    [u EXCEPT !.promise = IF @ = "pending" THEN outcome ELSE @,
              !.calls = @ + 1]

\* cleanup(): the three removeEventListener calls
cleanup(u) == [u EXCEPT !.listeners = {}]

\* finish(): settled guards the body; cleanup, video.pause(), resolve()
finish(v, u) ==
    IF u.settled THEN [player |-> v, playUntil |-> u]
    ELSE [player |-> [v EXCEPT !.paused = TRUE],
          playUntil |-> settleWith(cleanup([u EXCEPT !.settled = TRUE]), "resolved")]

\* handleError, and the catch of attemptPlay: settled guards the body;
\* cleanup, reject()
failUnguarded(u) == settleWith(cleanup([u EXCEPT !.settled = TRUE]), "rejected")

fail(u) ==
    IF u.settled THEN u
    ELSE settleWith(cleanup([u EXCEPT !.settled = TRUE]), "rejected")

\* playUntilMs(video, endMs): the three listeners are added and attemptPlay
\* calls video.play()
CallPlayUntilMs ==
    /\ playUntil.promise = "none"
    /\ \E endMs \in 1..MaxPlayMs :
        playUntil' = [endMs |-> endMs, settled |-> FALSE, listeners |-> MediaListeners,
                      promise |-> "pending", calls |-> 0, play |-> "first",
                      attempts |-> 1]
    /\ player' = [player EXCEPT !.paused = FALSE]
    /\ UNCHANGED <<mainAndSideVars, playLog>>

\* the browser moves currentTime and fires timeupdate: handleTimeUpdate, when
\* it is still listening, finishes once currentTime >= endSeconds
TimeUpdate ==
    /\ playUntil.promise # "none"
    /\ Len(playLog) < MaxEvents
    /\ \E t \in PlayTimes :
        /\ t >= player.currentTime
        /\ LET moved == [player EXCEPT !.currentTime = t]
               after == IF "timeupdate" \in playUntil.listeners /\ t >= playUntil.endMs
                        THEN finish(moved, playUntil)
                        ELSE [player |-> moved, playUntil |-> playUntil]
           IN /\ player' = after.player
              /\ playUntil' = after.playUntil
              /\ playLog' = Append(playLog, MediaEvent("timeupdate", t))
    /\ UNCHANGED mainAndSideVars

\* the video reaches its end and fires ended: handleEnded finishes
Ended ==
    /\ playUntil.promise # "none"
    /\ Len(playLog) < MaxEvents
    /\ ~player.ended
    /\ LET over == [player EXCEPT !.ended = TRUE, !.paused = TRUE]
           after == IF "ended" \in playUntil.listeners
                    THEN finish(over, playUntil)
                    ELSE [player |-> over, playUntil |-> playUntil]
       IN /\ player' = after.player
          /\ playUntil' = after.playUntil
    /\ playLog' = Append(playLog, MediaEvent("ended", player.currentTime))
    /\ UNCHANGED mainAndSideVars

\* the video fires error: handleError, when it is still listening
ErrorEvent ==
    /\ playUntil.promise # "none"
    /\ Len(playLog) < MaxEvents
    /\ playUntil' = IF "error" \in playUntil.listeners THEN fail(playUntil) ELSE playUntil
    /\ playLog' = Append(playLog, MediaEvent("error", player.currentTime))
    /\ UNCHANGED <<mainAndSideVars, player>>

\* the promise of video.play() resolves: attemptPlay resolves
PlayResolves ==
    /\ playUntil.play \in {"first", "retry"}
    /\ Len(playLog) < MaxEvents
    /\ playUntil' = [playUntil EXCEPT !.play = "resolved"]
    /\ playLog' = Append(playLog, MediaEvent("playResolved", player.currentTime))
    /\ UNCHANGED <<mainAndSideVars, player>>

\* the promise of video.play() rejects: on NotAllowedError with the video not
\* muted attemptPlay mutes it and plays again; any other rejection, and a
\* rejection of the second play(), rejects attemptPlay, whose catch rejects the
\* promise unless it has settled
PlayRejects ==
    /\ playUntil.play \in {"first", "retry"}
    /\ Len(playLog) < MaxEvents
    /\ \E error \in PlayErrors :
        IF playUntil.play = "first" /\ error = "NotAllowedError" /\ ~player.muted
        THEN /\ player' = [player EXCEPT !.muted = TRUE]
             /\ playUntil' = [playUntil EXCEPT !.play = "retry", !.attempts = 2]
             /\ playLog' = Append(playLog, MediaEvent("playRetried", player.currentTime))
        ELSE /\ player' = player
             /\ playUntil' = fail([playUntil EXCEPT !.play = "rejected"])
             /\ playLog' = Append(playLog, MediaEvent("playRejected", player.currentTime))
    /\ UNCHANGED mainAndSideVars

InitPlay ==
    /\ durationMs = 0
    /\ edlCuts = <<>>
    /\ EditorIdle
    /\ ExportIdle
    /\ idbAvailable = TRUE
    /\ IdbIdle
    /\ transcript = <<>>
    /\ ShortsIdle
    /\ player \in [currentTime : PlayTimes, paused : {TRUE}, muted : BOOLEAN,
                   ended : {FALSE}]
    /\ playUntil = NoPlayUntil
    /\ playLog = <<>>
    /\ PreviewIdle
    /\ DocsIdle
    /\ WhisperIdle

NextPlay ==
    \/ CallPlayUntilMs
    \/ TimeUpdate
    \/ Ended
    \/ ErrorEvent
    \/ PlayResolves
    \/ PlayRejects

SpecPlay == InitPlay /\ [][NextPlay]_vars

\* what the events so far make of the promise: the first of them that settles
\* it decides
RECURSIVE outcomeOf(_, _)
outcomeOf(log, endMs) ==
    IF log = <<>> THEN "pending"
    ELSE LET e == Head(log)
         IN IF e.event = "ended" \/ (e.event = "timeupdate" /\ e.time >= endMs)
            THEN "resolved"
            ELSE IF e.event \in {"error", "playRejected"} THEN "rejected"
            ELSE outcomeOf(Tail(log), endMs)

\* C22: the promise of playUntilMs settles at most once under every order of
\* timeupdate, ended and error events and play() settlements: it is resolved
\* exactly when the first settling event was a timeupdate at or past endMs or
\* an ended event, rejected exactly when it was an error event or the failure
\* of attemptPlay; once settled its listeners are removed and no later event
\* changes the outcome or calls resolve or reject again.
C22_PlayUntilSettlesOnce ==
    playUntil.promise # "none" =>
        /\ playUntil.calls <= 1
        /\ playUntil.promise = outcomeOf(playLog, playUntil.endMs)
        /\ playUntil.promise = "resolved" =>
            (player.currentTime >= playUntil.endMs \/ player.ended)
        /\ playUntil.settled <=> playUntil.promise # "pending"
        /\ playUntil.settled => playUntil.listeners = {}
        /\ ~playUntil.settled => playUntil.listeners = MediaListeners

\* playback reached endMs and resolved the promise while play() was pending;
\* pause() then rejected play(), and an error event followed: still resolved
C22_Witness ==
    /\ playUntil.promise = "resolved"
    /\ playUntil.calls = 1
    /\ Len(playLog) >= 3
    /\ playLog[1].event = "timeupdate"
    /\ playLog[2].event = "playRejected"
    /\ playLog[3].event = "error"

----------------------------------------------------------------------------
\* encodeWithMediaRecorder: what it still holds once it has settled

\* encodeWithMediaRecorder was entered and has resolved or thrown
RecorderBackendSettled ==
    \E i \in DOMAIN attempts :
        attempts[i].engine = "mediaRecorder" /\ attempts[i].outcome # "pending"

\* the steps the claim names: resolving, and throwing at the metadata load, the
\* mime selection, a seek, the playback or a recorder error
NamedStep ==
    resources.failure \in
        {"none", "loadedmetadata", "mime", "seek", "playback", "recorder error"}

----------------------------------------------------------------------------
\* Candidate windows: what the claims speak of

\* the segments the engine scans, and the preset of the last generation
Scanned == normalizeSegments(transcript)
UsedPreset == Preset(shortPreset)

\* the ceiling the engine applies
UsedCeiling == Min(UsedPreset.maxMs, 75000)

\* the duration of the window from start index s to end index e, unclipped
SpanMs(s, e) == Scanned[e].endMs - Scanned[s].startMs

\* e is a valid ending for the start index s
ValidEnding(s, e) ==
    /\ e >= s
    /\ SpanMs(s, e) >= UsedPreset.minMs
    /\ (isGoodBoundary(Scanned[e].text) \/ SpanMs(s, e) >= UsedCeiling)

\* C24: for each start segment index the engine enumerates at most one
\* candidate window, and that window ends at the smallest end index, not below
\* the start index, at which the duration has reached the preset minimum and
\* the end segment is a good boundary or the window has reached the ceiling.
C24_FirstValidEndingWins ==
    EngineReturned =>
        /\ \A i, j \in DOMAIN candidates :
            candidates[i].startIndex = candidates[j].startIndex => i = j
        /\ \A i \in DOMAIN candidates :
            LET c == candidates[i]
            IN /\ c.startIndex \in DOMAIN Scanned
               /\ c.endIndex \in DOMAIN Scanned
               /\ c.startMs = Scanned[c.startIndex].startMs
               /\ ValidEnding(c.startIndex, c.endIndex)
               /\ \A e \in c.startIndex..(c.endIndex - 1) : ~ValidEnding(c.startIndex, e)
        /\ \A s \in DOMAIN Scanned :
            (\E e \in DOMAIN Scanned : ValidEnding(s, e))
            => \E i \in DOMAIN candidates : candidates[i].startIndex = s

\* a window of two segments that ends on the first good boundary although the
\* segment after it is a valid ending too
C24_Witness ==
    /\ EngineReturned
    /\ \E i \in DOMAIN candidates :
        LET c == candidates[i]
        IN /\ c.endIndex = c.startIndex + 1
           /\ c.endIndex < Len(Scanned)
           /\ ValidEnding(c.startIndex, c.endIndex + 1)

\* the window was clipped: it ends before its last segment does
Clipped(c) == c.endMs < Scanned[c.endIndex].endMs

\* C25 as stated: the ceiling is 75 000 ms for every length preset: a window
\* shorter than 75 000 ms is never clipped, and a clipped window has endMs
\* equal to startMs + 75 000.
C25_CeilingIs75Seconds ==
    EngineReturned =>
        \A i \in DOMAIN candidates :
            LET c == candidates[i]
            IN /\ SpanMs(c.startIndex, c.endIndex) < 75000 => ~Clipped(c)
               /\ Clipped(c) => c.endMs = c.startMs + 75000

\* C25 amended: the ceiling is min(preset.maxMs, 75 000 ms), the preset
\* maximum for each of the three presets: a window keeps extending while its
\* duration is under the ceiling and its end is not a good boundary, a window
\* no longer than the ceiling is never clipped, and a clipped window has endMs
\* equal to startMs + the ceiling.
C25_CeilingIsPresetMaximum ==
    EngineReturned =>
        \A i \in DOMAIN candidates :
            LET c == candidates[i]
                span == SpanMs(c.startIndex, c.endIndex)
            IN /\ UsedCeiling = UsedPreset.maxMs
               /\ \A e \in c.startIndex..(c.endIndex - 1) :
                    \/ SpanMs(c.startIndex, e) < UsedPreset.minMs
                    \/ /\ SpanMs(c.startIndex, e) < UsedCeiling
                       /\ ~isGoodBoundary(Scanned[e].text)
               /\ span <= UsedCeiling => (~Clipped(c) /\ c.endMs = c.startMs + span)
               /\ span > UsedCeiling => (Clipped(c) /\ c.endMs = c.startMs + UsedCeiling)

\* a window that ran past a flat segment into one that ends 50 s after its
\* start was clipped to the preset maximum
C25_Witness ==
    /\ EngineReturned
    /\ \E i \in DOMAIN candidates :
        LET c == candidates[i]
        IN /\ c.endIndex > c.startIndex
           /\ Clipped(c)
           /\ SpanMs(c.startIndex, c.endIndex) = 50000
           /\ c.endMs = c.startMs + UsedPreset.maxMs

\* the candidate window a returned suggestion was made of
CandidateOf(sg) ==
    CHOOSE c \in {candidates[i] : i \in DOMAIN candidates} : c.segmentIds = sg.segmentIds

\* a signal, an exact fraction, is at least 0.6
AtLeastSixTenths(signal) == 10 * signal.n >= 6 * signal.d

TagsOf(sg) == {sg.reasonTags[k] : k \in DOMAIN sg.reasonTags}

\* C26: a returned suggestion carries the reason tag of a signal exactly when
\* that signal is at least 0.6, for each of the six signals; it carries at
\* most six tags; and it carries the single fallback tag "Good fit" exactly
\* when no signal reached 0.6.
C26_TagsFollowSixTenths ==
    EngineReturned =>
        \A j \in DOMAIN shortSuggestions :
            LET sg == shortSuggestions[j]
                signals == CandidateOf(sg).signals
                tags == TagsOf(sg)
                none == \A name \in DOMAIN signals : ~AtLeastSixTenths(signals[name])
            IN /\ "Hook" \in tags <=> AtLeastSixTenths(signals.hook)
               /\ "Complete thought" \in tags <=> AtLeastSixTenths(signals.completeness)
               /\ "Curiosity gap" \in tags <=> AtLeastSixTenths(signals.curiosity)
               /\ "Funny" \in tags <=> AtLeastSixTenths(signals.humor)
               /\ "Clear/Standalone" \in tags <=> AtLeastSixTenths(signals.clarity)
               /\ "Length fit" \in tags <=> AtLeastSixTenths(signals.lengthFit)
               /\ Len(sg.reasonTags) <= 6
               /\ none <=> sg.reasonTags = <<"Good fit">>

\* the segments a suggestion names, looked up in the transcript by id
NamedSegments(sg) ==
    {transcript[i] : i \in {k \in DOMAIN transcript :
        \E n \in DOMAIN sg.segmentIds : sg.segmentIds[n] = transcript[k].id}}

\* C27: for every returned suggestion startMs < endMs, the duration lies
\* between the preset minimum and the preset maximum, and every segment named
\* in segmentIds intersects [startMs, endMs]: none starts at or after endMs,
\* also when the window was clipped.
C27_SuggestionCoversItsSegments ==
    EngineReturned =>
        \A j \in DOMAIN shortSuggestions :
            LET sg == shortSuggestions[j]
            IN /\ sg.startMs < sg.endMs
               /\ sg.endMs - sg.startMs >= UsedPreset.minMs
               /\ sg.endMs - sg.startMs <= UsedPreset.maxMs
               /\ \A seg \in NamedSegments(sg) :
                    seg.startMs < sg.endMs /\ seg.endMs > sg.startMs

----------------------------------------------------------------------------
\* EditorPage.tsx: the playback preview

previewRest == <<mainVars, idbVars, shortsVars, playVars, docsVars, whisperVars>>

\* the kept timeline of the render: the cuts normalised against the project's
\* duration, and what they leave
previewCuts == normalizeCuts(edlCuts, durationMs)
previewKept == computeKeptRanges(durationMs, previewCuts)

\* keptRanges.find(range => ms >= range.inMs && ms < range.outMs): the
\* position of the first such range, 0 for undefined
currentRangeAt(ranges, ms) ==
    LET hits == {i \in 1..Len(ranges) : ms >= ranges[i].inMs /\ ms < ranges[i].outMs}
    IN IF hits = {} THEN 0 ELSE CHOOSE i \in hits : \A j \in hits : i <= j

\* keptRanges.find(range => ms < range.inMs)
nextRangeAfter(ranges, ms) ==
    LET hits == {i \in 1..Len(ranges) : ms < ranges[i].inMs}
    IN IF hits = {} THEN 0 ELSE CHOOSE i \in hits : \A j \in hits : i <= j

\* where the video can stand: the media may run past the project's duration
PreviewTimes == 0..MaxMs

\* handleTogglePlay with the transport enabled and no stop-at marker: a playing
\* video is paused; a paused one is first put on the kept timeline, then
\* played. play() settles either way: a rejection leaves the video paused
HandleTogglePlay ==
    /\ \/ /\ ~preview.paused
          /\ preview' = [preview EXCEPT !.paused = TRUE, !.last = "toggle"]
       \/ /\ preview.paused
          /\ \E played \in BOOLEAN :
                LET ranges == previewKept
                    currentMs == preview.currentTime
                    next == nextRangeAfter(ranges, currentMs)
                    nextRange == IF next = 0 THEN ranges[1] ELSE ranges[next]
                    placed ==
                        IF Len(ranges) > 0 /\ currentRangeAt(ranges, currentMs) = 0
                        THEN [preview EXCEPT !.currentTime = nextRange.inMs,
                                             !.currentTimeMs = nextRange.inMs]
                        ELSE preview
                IN preview' =
                    IF played
                    THEN [placed EXCEPT !.paused = FALSE, !.last = "toggle"]
                    ELSE [placed EXCEPT !.isPlaying = FALSE, !.last = "toggle"]
    /\ UNCHANGED <<previewRest, playLog>>

\* onPlay: the video began playing
VideoPlay ==
    /\ ~preview.paused
    /\ ~preview.isPlaying
    /\ preview' = [preview EXCEPT !.isPlaying = TRUE, !.last = "play"]
    /\ UNCHANGED <<previewRest, playLog>>

\* handleVideoPause: the pause event of a video that was paused
HandleVideoPause ==
    /\ preview.paused
    /\ preview.isPlaying
    /\ preview' = [preview EXCEPT !.isPlaying = FALSE, !.last = "pause"]
    /\ UNCHANGED <<previewRest, playLog>>

\* handleVideoEnded: the media ran to its end
HandleVideoEnded ==
    /\ ~preview.paused
    /\ preview' = [preview EXCEPT !.currentTime = MaxMs, !.paused = TRUE,
                                  !.isPlaying = FALSE, !.last = "ended"]
    /\ UNCHANGED <<previewRest, playLog>>

\* handleTimeUpdate with no stop-at marker, after the video moved to time ms
timeUpdated(p, ranges, ms) ==
    LET current == currentRangeAt(ranges, ms)
        next == nextRangeAfter(ranges, ms)
        moved == [p EXCEPT !.currentTime = ms, !.last = "timeupdate"]
    IN IF Len(ranges) > 0 /\ p.isPlaying /\ current = 0
       THEN IF next # 0
            THEN [moved EXCEPT !.currentTime = ranges[next].inMs,
                               !.currentTimeMs = ranges[next].inMs]
            ELSE [moved EXCEPT !.paused = TRUE,
                               !.currentTimeMs = ranges[Len(ranges)].outMs]
       ELSE [moved EXCEPT !.currentTimeMs = ms]

\* a timeupdate event: a playing video has advanced
HandleTimeUpdate ==
    /\ ~preview.paused
    /\ \E ms \in PreviewTimes :
        /\ ms >= preview.currentTime
        /\ preview' = timeUpdated(preview, previewKept, ms)
    /\ UNCHANGED <<previewRest, playLog>>

\* the cuts as the timeline holds them: inside 0..MaxMs, in order of their inMs
TimelineCuts == {c \in RawCuts : 0 <= c.inMs /\ c.inMs < c.outMs}

TimelineCutLists ==
    {s \in SeqsUpTo(TimelineCuts, MaxCuts) :
        \A i \in 1..(Len(s) - 1) : s[i].inMs <= s[i + 1].inMs}

InitPreview ==
    /\ durationMs \in TimeValues
    /\ edlCuts \in TimelineCutLists
    /\ EditorIdle
    /\ ExportIdle
    /\ idbAvailable = TRUE
    /\ IdbIdle
    /\ transcript = <<>>
    /\ ShortsIdle
    /\ PlayIdle
    /\ DocsIdle
    /\ WhisperIdle
    /\ preview \in [currentTime : PreviewTimes, paused : {TRUE}, isPlaying : {FALSE},
                    currentTimeMs : {0}, last : {"none"}]

NextPreview ==
    \/ HandleTogglePlay
    \/ VideoPlay
    \/ HandleVideoPause
    \/ HandleVideoEnded
    \/ HandleTimeUpdate

SpecPreview == InitPreview /\ [][NextPreview]_vars

InKept(ms) == \E i \in 1..Len(previewKept) :
    ms >= previewKept[i].inMs /\ ms < previewKept[i].outMs

InCut(ms) == \E i \in 1..Len(previewCuts) :
    ms >= previewCuts[i].inMs /\ ms < previewCuts[i].outMs

AtEndPaused ==
    /\ preview.paused
    /\ preview.currentTimeMs = previewKept[Len(previewKept)].outMs

\* C28: while the editor is playing with no stop-at marker, the playhead
\* recorded by a time-update is inside a kept range, or is the outMs of the
\* last kept range with the video paused; with no kept range left it is at
\* least not inside a cut
C28_PlayheadOnKeptTimeline ==
    (preview.last = "timeupdate" /\ preview.isPlaying) =>
        IF Len(previewKept) > 0
        THEN InKept(preview.currentTimeMs) \/ AtEndPaused
        ELSE ~InCut(preview.currentTimeMs)

\* the same with a kept range left: the part of the claim the handler keeps
T28_WithKeptRange ==
    (preview.last = "timeupdate" /\ preview.isPlaying /\ Len(previewKept) > 0) =>
        InKept(preview.currentTimeMs) \/ AtEndPaused

\* a playhead that fell inside a cut was moved to the inMs of the next kept range
T28_Skipped ==
    /\ preview.last = "timeupdate"
    /\ preview.isPlaying
    /\ Len(previewKept) > 1
    /\ preview.currentTimeMs = previewKept[2].inMs
    /\ preview.currentTime = preview.currentTimeMs

----------------------------------------------------------------------------
\* LocalStorageProvider: the project documents and their index

docsRest == <<projectVars, pc, plan, keptDurationMs, rangeVars, hostVars, xpc,
              phases, attempts, encoded, result, storeLog, capture, resources,
              sample, idbVars, shortsVars, playVars, previewVars, whisperVars>>

ProjectIds == {"p1", "p2"}

NoTranscript == [present |-> FALSE, segments |-> <<>>]

\* a project as createProject leaves it: the source it was made from, nothing
\* cut, split, attached or transcribed
NewDoc(projectId, at) ==
    [projectId |-> projectId,
     updatedAt |-> at,
     source |-> [asset |-> SourceAssetId, filename |-> "a.mp4", durationMs |-> MaxMs,
                 fps |-> TRUE],
     cuts |-> <<>>,
     splits |-> <<>>,
     assets |-> <<>>,
     transcript |-> NoTranscript]

buildSummary(doc) ==
    [projectId |-> doc.projectId,
     updatedAt |-> doc.updatedAt,
     filename |-> doc.source.filename,
     durationMs |-> doc.source.durationMs,
     hasTranscript |-> Len(doc.transcript.segments) > 0,
     transcriptSegmentsCount |-> Len(doc.transcript.segments),
     cutsCount |-> Len(doc.cuts),
     splitsCount |-> Len(doc.splits),
     assetsCount |-> Len(doc.assets)]

buildIndexFromDocs(docs) == [id \in DOMAIN docs |-> buildSummary(docs[id])]

\* docs[projectId] = doc and delete docs[projectId], on a loaded copy
setDoc(docs, projectId, doc) ==
    [id \in DOMAIN docs \cup {projectId} |-> IF id = projectId THEN doc ELSE docs[id]]

deleteDoc(docs, projectId) == [id \in DOMAIN docs \ {projectId} |-> docs[id]]

\* [...items].sort((a, b) => a[field] - b[field]): ascending, equal keys in
\* the order given
RECURSIVE insertByField(_, _, _)
insertByField(item, sorted, field) ==
    IF sorted = <<>> THEN <<item>>
    ELSE IF item[field] < Head(sorted)[field] THEN <<item>> \o sorted
    ELSE <<Head(sorted)>> \o insertByField(item, Tail(sorted), field)

RECURSIVE sortByField(_, _)
sortByField(items, field) ==
    IF items = <<>> THEN <<>>
    ELSE insertByField(items[Len(items)], sortByField(SubSeq(items, 1, Len(items) - 1), field),
                       field)

\* what the editor hands the setters
CutLists == {<<>>, <<Range(1, 2), Range(0, 1)>>}
SplitLists == {<<>>, <<[tMs |-> 2], [tMs |-> 1]>>}
AssetLists == {<<>>, <<[createdAt |-> 2], [createdAt |-> 1]>>}
TranscriptDocs == {NoTranscript, [present |-> TRUE, segments |-> <<1>>]}
RelinkFiles == {[name |-> "b.mp4", durationMs |-> 1, fps |-> TRUE],
                [name |-> "c.webm", durationMs |-> 2, fps |-> FALSE]}

\* the next updatedAt
now == docsOps + 1

\* loadProjectDocs / loadProjectIndex: the stored documents and the stored
\* index, parsed into a copy
loadProjectDocs == projectDocs
loadProjectIndex == projectIndex

\* saveProjectDocs(docs); saveProjectIndex(index) with one more operation done
Saved(docs, index) ==
    /\ projectDocs' = docs
    /\ projectIndex' = index
    /\ docsOps' = docsOps + 1

\* the setters: load, replace one field of the project, save both
SetField(projectId, field, value) ==
    /\ docsOps < MaxUpdates
    /\ LET docs == loadProjectDocs
           index == loadProjectIndex
       IN /\ projectId \in DOMAIN docs
          /\ LET updatedDoc == [docs[projectId] EXCEPT ![field] = value, !.updatedAt = now]
             IN Saved(setDoc(docs, projectId, updatedDoc),
                      setDoc(index, projectId, buildSummary(updatedDoc)))
    /\ UNCHANGED <<docsRest, storeVars, relink>>

SetCuts == \E projectId \in ProjectIds, cuts \in CutLists :
    SetField(projectId, "cuts", sortByField(cuts, "inMs"))

SetSplits == \E projectId \in ProjectIds, splits \in SplitLists :
    SetField(projectId, "splits", sortByField(splits, "tMs"))

SetAssets == \E projectId \in ProjectIds, assets \in AssetLists :
    SetField(projectId, "assets", sortByField(assets, "createdAt"))

SetTranscript == \E projectId \in ProjectIds, transcriptDoc \in TranscriptDocs :
    SetField(projectId, "transcript", transcriptDoc)

\* a setter for a project that is not stored throws before it writes
SetterThrows ==
    /\ docsOps < MaxUpdates
    /\ \E projectId \in ProjectIds : projectId \notin DOMAIN loadProjectDocs
    /\ docsOps' = docsOps + 1
    /\ UNCHANGED <<docsRest, storeVars, relink, projectDocs, projectIndex>>

SaveProject ==
    /\ docsOps < MaxUpdates
    /\ \E projectId \in ProjectIds :
        LET docs == loadProjectDocs
            index == loadProjectIndex
            storedDoc == NewDoc(projectId, now)
        IN Saved(setDoc(docs, projectId, storedDoc),
                 setDoc(index, projectId, buildSummary(storedDoc)))
    /\ UNCHANGED <<docsRest, storeVars, relink>>

DeleteProject ==
    /\ docsOps < MaxUpdates
    /\ \E projectId \in ProjectIds :
        LET docs == loadProjectDocs
            index == loadProjectIndex
        IN Saved(deleteDoc(docs, projectId), deleteDoc(index, projectId))
    /\ UNCHANGED <<docsRest, storeVars, relink>>

\* relinkSource up to its first await: the documents and the index are loaded,
\* a missing project throws
RelinkSource ==
    /\ relink.pc = "idle"
    /\ \E projectId \in ProjectIds, file \in RelinkFiles :
        LET docs == loadProjectDocs
            index == loadProjectIndex
        IN relink' = [relink EXCEPT
                        !.pc = IF projectId \in DOMAIN docs THEN "metadata" ELSE "failed",
                        !.projectId = projectId, !.file = file,
                        !.docs = docs, !.index = index]
    /\ UNCHANGED <<docsRest, storeVars, projectDocs, projectIndex, docsOps>>

\* getMediaMetadata resolved: putAsset puts the file in the memory map under a
\* new id and awaits putAssetRecord
RelinkMetadataResolves ==
    /\ relink.pc = "metadata"
    /\ LET held == DOMAIN assetStore \cup DOMAIN assetRecords
           assetId == namespaceAssetId("local", createId(held))
       IN /\ assetStore' = setAsset(assetStore, assetId, relink.file.name)
          /\ relink' = [relink EXCEPT !.pc = "asset", !.assetId = assetId]
    /\ UNCHANGED <<docsRest, assetRecords, projectDocs, projectIndex, docsOps>>

\* getMediaMetadata rejected: relinkSource rejects with it
RelinkMetadataRejects ==
    /\ relink.pc = "metadata"
    /\ relink' = [relink EXCEPT !.pc = "failed"]
    /\ UNCHANGED <<docsRest, storeVars, projectDocs, projectIndex, docsOps>>

\* the document relinkSource writes over the one it loaded
relinked(existing, file, assetId, at) ==
    [existing EXCEPT !.source = [asset |-> assetId, filename |-> file.name,
                                 durationMs |-> file.durationMs, fps |-> file.fps],
                     !.updatedAt = at]

\* putAsset settled (the IndexedDB record written or not): the loaded
\* documents and index get the relinked project and are saved
RelinkPutAssetSettles ==
    /\ relink.pc = "asset"
    /\ docsOps < MaxUpdates
    /\ \E idbOpens \in BOOLEAN :
        assetRecords' = IF idbOpens
                        THEN setAsset(assetRecords, relink.assetId, relink.file.name)
                        ELSE assetRecords
    /\ LET updatedDoc == relinked(relink.docs[relink.projectId], relink.file,
                                  relink.assetId, now)
       IN Saved(setDoc(relink.docs, relink.projectId, updatedDoc),
                setDoc(relink.index, relink.projectId, buildSummary(updatedDoc)))
    /\ relink' = [relink EXCEPT !.pc = "done"]
    /\ UNCHANGED <<docsRest, assetStore>>

\* the documents the provider can hold when the editor opens
InitialDocs ==
    {[id \in ids |-> NewDoc(id, 0)] : ids \in SUBSET ProjectIds}

InitDocs ==
    /\ durationMs = 0
    /\ edlCuts = <<>>
    /\ EditorIdle
    /\ ExportIdle
    /\ idbAvailable = TRUE
    /\ IdbIdle
    /\ transcript = <<>>
    /\ ShortsIdle
    /\ PlayIdle
    /\ PreviewIdle
    /\ WhisperIdle
    /\ projectDocs \in InitialDocs
    /\ projectIndex = buildIndexFromDocs(projectDocs)
    /\ relink = NoRelink
    /\ docsOps = 0

NextDocs ==
    \/ SetCuts
    \/ SetSplits
    \/ SetAssets
    \/ SetTranscript
    \/ SetterThrows
    \/ SaveProject
    \/ DeleteProject
    \/ RelinkSource
    \/ RelinkMetadataResolves
    \/ RelinkMetadataRejects
    \/ RelinkPutAssetSettles

SpecDocs == InitDocs /\ [][NextDocs]_vars

\* what the stored documents say of a project, apart from its source and its
\* updatedAt: "none" when it is not stored
editsOf(docs, projectId) ==
    IF projectId \in DOMAIN docs
    THEN [stored |-> TRUE, cuts |-> docs[projectId].cuts,
          splits |-> docs[projectId].splits, assets |-> docs[projectId].assets,
          transcript |-> docs[projectId].transcript]
    ELSE [stored |-> FALSE, cuts |-> <<>>, splits |-> <<>>, assets |-> <<>>,
          transcript |-> NoTranscript]

countsOf(index, projectId) ==
    IF projectId \in DOMAIN index
    THEN [stored |-> TRUE, cuts |-> index[projectId].cutsCount,
          splits |-> index[projectId].splitsCount,
          assets |-> index[projectId].assetsCount,
          segments |-> index[projectId].transcriptSegmentsCount]
    ELSE [stored |-> FALSE, cuts |-> 0, splits |-> 0, assets |-> 0, segments |-> 0]

RelinkCompletes == relink.pc = "asset" /\ relink'.pc = "done"

\* C29: when relinkSource completes, what the stored documents and the index
\* say of every project's cuts, splits, assets and transcript, and whether the
\* project is stored at all, is what they said just before: no update made
\* while the call was suspended is undone
C29_RelinkKeepsUpdates ==
    [][RelinkCompletes =>
        \A projectId \in ProjectIds :
            /\ editsOf(projectDocs', projectId) = editsOf(projectDocs, projectId)
            /\ countsOf(projectIndex', projectId) = countsOf(projectIndex, projectId)]_vars

----------------------------------------------------------------------------
\* offlineWhisperClient.ts: one client, its worker and its transcribe promises

whisperRest == <<mainVars, idbVars, shortsVars, playVars, previewVars, docsVars>>

WhisperModels == {"tiny", "base"}

\* the phases a status message can carry, apart from "error"
StatusPhases == {"loading", "transcribing", "done"}

\* the request id of a transcribe call: the position of its promise
createRequestId(w) == Len(w.promises) + 1

\* cleanup: both listeners of the request are removed and the marker is cleared
cleanupRequest(w, requestId) ==
    [w EXCEPT !.listeners = w.listeners \ {requestId}, !.activeRequest = 0]

\* resolve / reject: a promise that is settled stays as it is
settleRequest(w, requestId, outcome) ==
    IF w.promises[requestId] = "pending"
    THEN [w EXCEPT !.promises[requestId] = outcome]
    ELSE w

\* transcribe: rejected at once when a request is active; otherwise a worker
\* is created if there is none, the request becomes the active one, its
\* listeners are added and the message is posted
Transcribe ==
    /\ Len(whisper.promises) < MaxRequests
    /\ \E model \in WhisperModels :
        IF whisper.activeRequest # 0
        THEN whisper' = [whisper EXCEPT !.promises = Append(@, "alreadyRunning")]
        ELSE LET requestId == createRequestId(whisper)
                 fresh == whisper.worker = 0
                 worker == IF fresh THEN whisper.created + 1 ELSE whisper.worker
             IN whisper' =
                 [whisper EXCEPT
                    !.worker = worker,
                    !.created = IF fresh THEN @ + 1 ELSE @,
                    !.activeRequest = requestId,
                    !.promises = Append(@, "pending"),
                    !.listeners = @ \cup {requestId},
                    !.posted = Append(@, [worker |-> worker, requestId |-> requestId,
                                          model |-> model])]
    /\ UNCHANGED whisperRest

\* terminate: the worker is terminated and forgotten with its listeners, the
\* marker is cleared
Terminate ==
    /\ whisper' = [whisper EXCEPT !.worker = 0, !.activeRequest = 0, !.listeners = {}]
    /\ UNCHANGED whisperRest

\* the requests the live worker was sent
RequestsOfWorker(w) ==
    {w.posted[i].requestId : i \in {j \in 1..Len(w.posted) : w.posted[j].worker = w.worker}}

\* handleMessage of the request the message names; every other request's
\* handler returns at once
handleMessage(w, requestId, type, phase) ==
    IF requestId \notin w.listeners THEN w
    ELSE IF type = "status"
    THEN LET told == [w EXCEPT !.status = phase]
         IN IF phase = "error"
            THEN settleRequest(cleanupRequest(told, requestId), requestId, "rejected")
            ELSE told
    ELSE settleRequest(cleanupRequest(w, requestId), requestId, "resolved")

\* the worker reports progress on a request it was sent
WorkerStatus ==
    /\ whisper.worker # 0
    /\ \E requestId \in RequestsOfWorker(whisper), phase \in StatusPhases :
        whisper' = handleMessage(whisper, requestId, "status", phase)
    /\ UNCHANGED whisperRest

\* the worker reports that a request failed
WorkerStatusError ==
    /\ whisper.worker # 0
    /\ \E requestId \in RequestsOfWorker(whisper) :
        whisper' = handleMessage(whisper, requestId, "status", "error")
    /\ UNCHANGED whisperRest

\* the worker delivers the segments of a request
WorkerResult ==
    /\ whisper.worker # 0
    /\ \E requestId \in RequestsOfWorker(whisper) :
        whisper' = handleMessage(whisper, requestId, "result", "done")
    /\ UNCHANGED whisperRest

\* handleError of every request that still listens: an error event of the
\* live worker
RECURSIVE handleErrors(_, _)
handleErrors(w, requestIds) ==
    IF requestIds = {} THEN w
    ELSE LET requestId == CHOOSE r \in requestIds : TRUE
         IN handleErrors(settleRequest(cleanupRequest(w, requestId), requestId, "rejected"),
                         requestIds \ {requestId})

WorkerError ==
    /\ whisper.worker # 0
    /\ whisper.listeners # {}
    /\ whisper' = handleErrors(whisper, whisper.listeners)
    /\ UNCHANGED whisperRest

InitWhisper ==
    /\ durationMs = 0
    /\ edlCuts = <<>>
    /\ EditorIdle
    /\ ExportIdle
    /\ idbAvailable = TRUE
    /\ IdbIdle
    /\ transcript = <<>>
    /\ ShortsIdle
    /\ PlayIdle
    /\ PreviewIdle
    /\ DocsIdle
    /\ WhisperIdle

NextWhisper ==
    \/ Transcribe
    \/ Terminate
    \/ WorkerStatus
    \/ WorkerStatusError
    \/ WorkerResult
    \/ WorkerError

SpecWhisper == InitWhisper /\ [][NextWhisper]_vars

PendingRequests == {i \in 1..Len(whisper.promises) : whisper.promises[i] = "pending"}

PostingRequests == {i \in 1..Len(whisper.promises) : whisper.promises[i] # "alreadyRunning"}

\* C30: on one client at most one transcribe promise is pending, the
\* active-request marker names it and is clear when none is pending, a pending
\* promise still has its listeners on the live worker so that it can settle,
\* and only the calls that were not turned away posted to a worker
C30_OneRequestInFlight ==
    /\ Cardinality(PendingRequests) <= 1
    /\ PendingRequests = IF whisper.activeRequest = 0 THEN {} ELSE {whisper.activeRequest}
    /\ \A i \in PendingRequests : whisper.worker # 0 /\ i \in whisper.listeners
    /\ {whisper.posted[i].requestId : i \in 1..Len(whisper.posted)} = PostingRequests

\* the part the client keeps: a call made while the marker is set is rejected
\* without posting, and every other call posts exactly once
T30_BusyCallsDoNotPost ==
    /\ {whisper.posted[i].requestId : i \in 1..Len(whisper.posted)} = PostingRequests
    /\ Len(whisper.posted) = Cardinality(PostingRequests)
    /\ whisper.activeRequest # 0 => whisper.activeRequest \in PendingRequests

\* without terminate the marker and the pending promise agree
T30_NoTerminate ==
    whisper.created = 1 /\ whisper.worker = 1 =>
        PendingRequests = IF whisper.activeRequest = 0 THEN {} ELSE {whisper.activeRequest}

====
